---------------------------- MODULE Spec2Model ----------------------------
(***************************************************************************)
(* A model of the spooky HTTP/3 edge proxy: the backend pool and its       *)
(* health state, the three load-balancing strategies, the bounded HTTP/2   *)
(* upstream pool, the H3->H2 bridge, the per-stream request dispatch of    *)
(* the QUIC listener and its connection table with draining.               *)
(*                                                                         *)
(* Each component has its own specification (SpecHealth, SpecLB, SpecPool, *)
(* SpecBridge, SpecReq, SpecConn) over one set of variables; the variables *)
(* a specification does not use keep their initial value.                  *)
(***************************************************************************)
EXTENDS Integers, Sequences, FiniteSets, TLC

VARIABLES
    now,            \* the monotonic clock read by Instant::now()
    upstream_pools, \* upstream name -> UpstreamPool {pool, load_balancer}
    calls,          \* history: per upstream and backend, the mark_* calls made
    last_pick,      \* the value returned by the pick just made, if one was just made
    max_inflight,   \* H2Pool::new(backends, max_inflight)
    permits,        \* H2Pool: backend address -> available permits of its semaphore
    waiters,        \* H2Pool: backend address -> queue of the senders waiting for a permit
    senders,        \* sender -> where it is in H2Pool::send, and how its last send ended
    bridge_in,      \* the arguments of build_h2_request or of send_backend_response
    bridge_out,     \* what the call made of them, once it was made
    stream_state,   \* stream id -> what the HTTP/3 layer has reported of the stream so far
    streams,        \* connection.streams: stream id -> RequestEnvelope
    metrics,        \* the Metrics counters
    dispatch,       \* the request handle_request_finish is forwarding, if any
    written,        \* what the event handler just run wrote on the streams, in order
    last_finish,    \* the Finished event just handled, if one was just handled
    probes,         \* the health probes reported so far
    connections,    \* the connection table: SCID -> QuicConnection
    draining,       \* QUICListener::draining
    drain_start,    \* QUICListener::drain_start
    drain_keys,     \* the keys of the table when draining started
    last_call       \* the listener call just made and what it did, if one was just made

lbvars == <<now, upstream_pools, calls, last_pick>>
poolvars == <<max_inflight, permits, waiters, senders>>
bridgevars == <<bridge_in, bridge_out>>
reqvars == <<stream_state, streams, metrics, dispatch, written, last_finish, probes>>
connvars == <<connections, draining, drain_start, drain_keys, last_call>>
vars == <<lbvars, poolvars, bridgevars, reqvars, connvars>>

(* The variables outside each component. *)
OutsideLB == <<poolvars, bridgevars, reqvars, connvars>>
OutsidePool == <<lbvars, bridgevars, reqvars, connvars>>
OutsideBridge == <<lbvars, poolvars, reqvars, connvars>>
OutsideReq == <<calls, last_pick, poolvars, bridgevars, connvars>>
OutsideConn == <<upstream_pools, calls, last_pick, poolvars, bridgevars, reqvars>>

-----------------------------------------------------------------------------
(* Bounds of the model. *)

NumBackends == 2        \* backends of the pool
HealthBackends == 1     \* backends of the pool whose health state machine is followed
MaxThreshold == 2       \* failure_threshold and success_threshold range over 1..MaxThreshold
MaxCooldown == 1        \* cooldown_ms ranges over 0..MaxCooldown (in clock ticks)
MaxTime == 2            \* the clock stops advancing here
MaxPicks == 3           \* picks after which the round-robin cursor stops
MaxWeight == 2          \* backend weights range over 1..MaxWeight
MaxReplicas == 2        \* ConsistentHash::new(replicas), replicas in 0..MaxReplicas
MaxInflight == 2        \* H2Pool::new(_, max_inflight), max_inflight in 0..MaxInflight
NumSenders == 3         \* concurrent callers of H2Pool::send (listener and probes)
MaxHeaders == 2         \* headers of a request or of an upstream response
MaxBody == 1            \* bytes of a body
MaxRequests == 2        \* Headers events on a connection
MaxProbes == 1          \* health probes reported while the requests are served
MaxConnections == 2     \* connections in the table at once
MaxClock == 5           \* the clock of the listener stops advancing here
WordBits == 4           \* bits of the machine word (usize) of the round-robin cursor

-----------------------------------------------------------------------------
(* Option values. *)

None == [some |-> FALSE]
Some(x) == [some |-> TRUE, value |-> x]

Max2(a, b) == IF a >= b THEN a ELSE b

(* The elements of the sequence s. *)
Range(s) == {s[i] : i \in DOMAIN s}

-----------------------------------------------------------------------------
(* 64-bit words, held as 8 bytes, least significant first, so that the     *)
(* arithmetic of hash64 keeps its width.                                   *)

RECURSIVE XorBits(_, _, _)
XorBits(a, b, n) ==
    IF n = 0 THEN 0
    ELSE (((a % 2) + (b % 2)) % 2) + 2 * XorBits(a \div 2, b \div 2, n - 1)

XorByte(a, b) == XorBits(a, b, 8)

(* FNV_OFFSET = 0xcbf29ce484222325 *)
FNV_OFFSET == <<37, 35, 34, 132, 228, 156, 242, 203>>

(* hash.wrapping_mul(FNV_PRIME), FNV_PRIME = 0x00000100000001b3 = 2^40 + 435: *)
(* byte i of the product before carries is 435 * h[i] + h[i - 5].            *)
RECURSIVE Carry(_, _, _)
Carry(t, i, c) ==
    IF i > 8 THEN <<>>
    ELSE <<(t[i] + c) % 256>> \o Carry(t, i + 1, (t[i] + c) \div 256)

WrappingMulPrime(h) ==
    Carry([i \in 1..8 |-> 435 * h[i] + (IF i > 5 THEN h[i - 5] ELSE 0)], 1, 0)

RECURSIVE Fnv(_, _, _)
Fnv(hash, data, i) ==
    IF i > Len(data) THEN hash
    ELSE Fnv(WrappingMulPrime([hash EXCEPT ![1] = XorByte(hash[1], data[i])]),
             data, i + 1)

hash64(data) == Fnv(FNV_OFFSET, data, 1)

(* a < b on 64-bit words. *)
RECURSIVE LessFrom(_, _, _)
LessFrom(a, b, i) ==
    IF i = 0 THEN FALSE
    ELSE IF a[i] # b[i] THEN a[i] < b[i]
    ELSE LessFrom(a, b, i - 1)

U64Less(a, b) == LessFrom(a, b, 8)
U64Leq(a, b) == a = b \/ U64Less(a, b)

(* replica.to_string().as_bytes(): the decimal digits in ASCII. *)
RECURSIVE ToStringBytes(_)
ToStringBytes(n) ==
    IF n < 10 THEN <<48 + n>>
    ELSE ToStringBytes(n \div 10) \o <<48 + (n % 10)>>

-----------------------------------------------------------------------------
(* Backend addresses and request hash keys, as bytes: the addresses "a:1",  *)
(* "b:1", ... and the keys "/a" (a path), "b.test" (an authority) and "GET" *)
(* (a method), which hash below, between and above the virtual nodes.      *)

Address(i) == <<97 + i, 58, 49>>

Keys == {<<47, 97>>, <<98, 46, 116, 101, 115, 116>>, <<71, 69, 84>>}

-----------------------------------------------------------------------------
(* BackendState *)

Healthy == [tag |-> "Healthy"]
Unhealthy(until, successes) ==
    [tag |-> "Unhealthy", until |-> until, successes |-> successes]

BackendState_new(backend) ==
    [backend |-> backend, consecutive_failures |-> 0, health_state |-> Healthy]

is_healthy(b) == b.health_state.tag = "Healthy"

weight(b) == Max2(b.backend.weight, 1)

(* record_success without the cooldown test: a success counts at any time. *)
record_success_ignoring_cooldown(b, t) ==
    IF b.health_state.tag = "Healthy"
    THEN [state |-> [b EXCEPT !.consecutive_failures = 0], transition |-> None]
    ELSE IF b.health_state.successes + 1 >= b.backend.health_check.success_threshold
    THEN [state |-> [b EXCEPT !.consecutive_failures = 0, !.health_state = Healthy],
          transition |-> Some("BecameHealthy")]
    ELSE [state |-> [b EXCEPT !.health_state.successes = @ + 1],
          transition |-> None]

(* record_success counting a success of the cooldown without recovering on it. *)
record_success_counting_in_cooldown(b, t) ==
    IF b.health_state.tag = "Healthy"
    THEN [state |-> [b EXCEPT !.consecutive_failures = 0], transition |-> None]
    ELSE IF t < b.health_state.until
    THEN [state |-> [b EXCEPT !.health_state.successes = @ + 1], transition |-> None]
    ELSE IF b.health_state.successes + 1 >= b.backend.health_check.success_threshold
    THEN [state |-> [b EXCEPT !.consecutive_failures = 0, !.health_state = Healthy],
          transition |-> Some("BecameHealthy")]
    ELSE [state |-> [b EXCEPT !.health_state.successes = @ + 1],
          transition |-> None]

(* Both return the new state and the Option<HealthTransition>. *)
record_success(b, t) ==
    IF b.health_state.tag = "Healthy"
    THEN [state |-> [b EXCEPT !.consecutive_failures = 0], transition |-> None]
    ELSE IF t < b.health_state.until
    THEN [state |-> b, transition |-> None]
    ELSE IF b.health_state.successes + 1 >= b.backend.health_check.success_threshold
    THEN [state |-> [b EXCEPT !.consecutive_failures = 0, !.health_state = Healthy],
          transition |-> Some("BecameHealthy")]
    ELSE [state |-> [b EXCEPT !.health_state.successes = @ + 1],
          transition |-> None]

(* record_failure tripping one failure late. *)
record_failure_above_threshold(b, t) ==
    IF b.consecutive_failures + 1 <= b.backend.health_check.failure_threshold
    THEN [state |-> [b EXCEPT !.consecutive_failures = @ + 1], transition |-> None]
    ELSE [state |-> [b EXCEPT !.consecutive_failures = 0,
                              !.health_state =
                                  Unhealthy(t + b.backend.health_check.cooldown_ms, 0)],
          transition |-> Some("BecameUnhealthy")]

record_failure(b, t) ==
    IF b.consecutive_failures + 1 < b.backend.health_check.failure_threshold
    THEN [state |-> [b EXCEPT !.consecutive_failures = @ + 1], transition |-> None]
    ELSE [state |-> [b EXCEPT !.consecutive_failures = 0,
                              !.health_state =
                                  Unhealthy(t + b.backend.health_check.cooldown_ms, 0)],
          transition |-> Some("BecameUnhealthy")]

-----------------------------------------------------------------------------
(* BackendPool: backends is a function from 0..len-1. *)

BackendPool_new(backends) ==
    [i \in DOMAIN backends |-> BackendState_new(backends[i])]

len(p) == Cardinality(DOMAIN p)

mark_success(p, index, t) ==
    IF index \in DOMAIN p
    THEN [pool |-> [p EXCEPT ![index] = record_success(p[index], t).state],
          transition |-> record_success(p[index], t).transition]
    ELSE [pool |-> p, transition |-> None]

mark_failure(p, index, t) ==
    IF index \in DOMAIN p
    THEN [pool |-> [p EXCEPT ![index] = record_failure(p[index], t).state],
          transition |-> record_failure(p[index], t).transition]
    ELSE [pool |-> p, transition |-> None]

(* The healthy indices in ascending order, as a sequence. *)
RECURSIVE HealthyFrom(_, _)
HealthyFrom(p, i) ==
    IF i \notin DOMAIN p THEN <<>>
    ELSE (IF is_healthy(p[i]) THEN <<i>> ELSE <<>>) \o HealthyFrom(p, i + 1)

(* healthy_indices listing the unhealthy backends as well. *)
healthy_indices_with_unhealthy(p) == [k \in 1..len(p) |-> k - 1]

healthy_indices(p) == HealthyFrom(p, 0)

address(p, index) == IF index \in DOMAIN p THEN Some(p[index].backend.address) ELSE None

-----------------------------------------------------------------------------
(* Load balancers *)

RoundRobin_new == [kind |-> "RoundRobin", next |-> 0]

(* usize::wrapping_add(1) on a word of WordBits bits. *)
wrapping_add_1(x) == (x + 1) % (2 ^ WordBits)
ConsistentHash_new(replicas) == [kind |-> "ConsistentHash", replicas |-> Max2(replicas, 1)]
Random_new == [kind |-> "Random"]

(* RoundRobin::pick rotating over every index instead of the healthy ones. *)
RoundRobin_pick_any(rr, p) ==
    IF len(p) = 0
    THEN {[result |-> None, lb |-> rr]}
    ELSE {[result |-> Some(rr.next % len(p)),
           lb |-> [rr EXCEPT !.next = wrapping_add_1(@)]]}

(* RoundRobin::pick leaving the cursor where it is. *)
RoundRobin_pick_without_advance(rr, p) ==
    LET candidates == healthy_indices(p) IN
    IF candidates = <<>>
    THEN {[result |-> None, lb |-> rr]}
    ELSE {[result |-> Some(candidates[(rr.next % Len(candidates)) + 1]), lb |-> rr]}

(* Each pick returns the set of possible outcomes {result, lb}: Random draws. *)
RoundRobin_pick(rr, p) ==
    LET candidates == healthy_indices(p) IN
    IF candidates = <<>>
    THEN {[result |-> None, lb |-> rr]}
    ELSE {[result |-> Some(candidates[(rr.next % Len(candidates)) + 1]),
           lb |-> [rr EXCEPT !.next = wrapping_add_1(@)]]}

(* The hashes of the virtual nodes of the addresses above and of the keys,  *)
(* computed once.                                                          *)
vnode_hashes ==
    [a \in {Address(i) : i \in 0..NumBackends} |->
        [replica \in 0..(Max2(MaxReplicas, 1) * MaxWeight) |->
            hash64(a \o <<45>> \o ToStringBytes(replica))]]

key_hashes == [key \in Keys |-> hash64(key)]

(* The key of a virtual node: hash64(address || "-" || replica). *)
vnode_key(b, replica) ==
    IF b.backend.address \in DOMAIN vnode_hashes
          /\ replica \in DOMAIN vnode_hashes[b.backend.address]
    THEN vnode_hashes[b.backend.address][replica]
    ELSE hash64(b.backend.address \o <<45>> \o ToStringBytes(replica))

(* hash64(key.as_bytes()) *)
key_hash_of(key) == IF key \in DOMAIN key_hashes THEN key_hashes[key] ELSE hash64(key)

(* The ring as a set of entries {key, value}, one per key: a later insert  *)
(* of the same key replaces the earlier one, so the value of a key is the  *)
(* last index of `indices` one of whose virtual nodes hashes to it.        *)
build_ring(p, indices, replicas) ==
    LET Nodes(j) == {vnode_key(p[indices[j]], r) :
                        r \in 0..(replicas * weight(p[indices[j]]) - 1)}
        Pos == {j \in DOMAIN indices : indices[j] \in DOMAIN p}
        AllKeys == UNION {Nodes(j) : j \in Pos}
        LastPos(k) == CHOOSE j \in Pos :
                        /\ k \in Nodes(j)
                        /\ \A j2 \in Pos : k \in Nodes(j2) => j2 <= j
    IN {[key |-> k, value |-> indices[LastPos(k)]] : k \in AllKeys}

(* The entry with the least key among the entries es (es non-empty). *)
FirstEntry(es) == CHOOSE e \in es : \A e2 \in es : U64Leq(e.key, e2.key)

(* A pick by the key's hash modulo the number of healthy backends, with no *)
(* ring.                                                                   *)
ConsistentHash_pick_modulo(ch, key, p) ==
    IF len(p) = 0 THEN {[result |-> None, lb |-> ch]}
    ELSE LET candidates == healthy_indices(p) IN
    IF candidates = <<>> THEN {[result |-> None, lb |-> ch]}
    ELSE {[result |-> Some(candidates[(key_hash_of(key)[1] % Len(candidates)) + 1]),
           lb |-> ch]}

(* ConsistentHash::pick taking the last ring entry at or after the key's   *)
(* hash instead of the first.                                              *)
ConsistentHash_pick_last(ch, key, p) ==
    IF len(p) = 0 THEN {[result |-> None, lb |-> ch]}
    ELSE LET candidates == healthy_indices(p) IN
    IF candidates = <<>> THEN {[result |-> None, lb |-> ch]}
    ELSE LET ring == build_ring(p, candidates, ch.replicas)
             key_hash == key_hash_of(key)
             from == {e \in ring : U64Leq(key_hash, e.key)}
             LastEntry(es) == CHOOSE e \in es : \A e2 \in es : U64Leq(e2.key, e.key)
         IN IF from # {} THEN {[result |-> Some(LastEntry(from).value), lb |-> ch]}
            ELSE IF ring # {} THEN {[result |-> Some(FirstEntry(ring).value), lb |-> ch]}
            ELSE {[result |-> None, lb |-> ch]}

(* ConsistentHash::pick without the wrap to the first ring entry. *)
ConsistentHash_pick_no_wrap(ch, key, p) ==
    IF len(p) = 0 THEN {[result |-> None, lb |-> ch]}
    ELSE LET candidates == healthy_indices(p) IN
    IF candidates = <<>> THEN {[result |-> None, lb |-> ch]}
    ELSE LET ring == build_ring(p, candidates, ch.replicas)
             key_hash == key_hash_of(key)
             from == {e \in ring : U64Leq(key_hash, e.key)}
         IN IF from # {} THEN {[result |-> Some(FirstEntry(from).value), lb |-> ch]}
            ELSE {[result |-> None, lb |-> ch]}

ConsistentHash_pick(ch, key, p) ==
    IF len(p) = 0 THEN {[result |-> None, lb |-> ch]}
    ELSE LET candidates == healthy_indices(p) IN
    IF candidates = <<>> THEN {[result |-> None, lb |-> ch]}
    ELSE LET ring == build_ring(p, candidates, ch.replicas)
             key_hash == key_hash_of(key)
             from == {e \in ring : U64Leq(key_hash, e.key)}
         IN IF from # {} THEN {[result |-> Some(FirstEntry(from).value), lb |-> ch]}
            ELSE IF ring # {} THEN {[result |-> Some(FirstEntry(ring).value), lb |-> ch]}
            ELSE {[result |-> None, lb |-> ch]}

Random_pick(rand, p) ==
    LET candidates == healthy_indices(p) IN
    IF candidates = <<>>
    THEN {[result |-> None, lb |-> rand]}
    ELSE {[result |-> Some(candidates[idx + 1]), lb |-> rand] :
             idx \in 0..(Len(candidates) - 1)}

LoadBalancing_pick(l, key, p) ==
    CASE l.kind = "RoundRobin" -> RoundRobin_pick(l, p)
      [] l.kind = "ConsistentHash" -> ConsistentHash_pick(l, key, p)
      [] l.kind = "Random" -> Random_pick(l, p)

(* UpstreamPool: a BackendPool with the strategy of its upstream. *)
UpstreamPool_pick(up, key) ==
    {[result |-> o.result, up |-> [up EXCEPT !.load_balancer = o.lb]] :
        o \in LoadBalancing_pick(up.load_balancer, key, up.pool)}

-----------------------------------------------------------------------------
(* The pool on its own: any interleaving of mark_success, mark_failure,    *)
(* pick and clock advances on one upstream pool.                           *)

Min2(a, b) == IF a <= b THEN a ELSE b

HealthChecks ==
    [failure_threshold : 1..MaxThreshold,
     success_threshold : 1..MaxThreshold,
     cooldown_ms : 0..MaxCooldown]

Strategies ==
    {RoundRobin_new, Random_new} \cup {ConsistentHash_new(r) : r \in {0, MaxReplicas}}

(* The backends of a pool of n backends sharing one health-check spec, of  *)
(* weights 1, 2, .., MaxWeight, 1, 2, ...                                  *)
Backends(n, hc) ==
    [i \in 0..(n - 1) |->
        [address |-> Address(i), weight |-> 1 + (i % MaxWeight), health_check |-> hc]]

NoCalls == [run |-> 0, marked |-> FALSE, marked_at |-> 0, succ_since |-> 0]

(* The history of one backend after a mark_failure call at time t that     *)
(* returned `transition`: run counts the consecutive mark_failure calls.   *)
AfterFailure(c, b, transition, t) ==
    IF transition = Some("BecameUnhealthy")
    THEN [run |-> Min2(c.run + 1, b.backend.health_check.failure_threshold),
          marked |-> TRUE, marked_at |-> t, succ_since |-> 0]
    ELSE [c EXCEPT !.run = Min2(c.run + 1, b.backend.health_check.failure_threshold)]

AfterSuccess(c, b) ==
    [c EXCEPT !.run = 0,
              !.succ_since = Min2(c.succ_since + 1,
                                  b.backend.health_check.success_threshold)]

(* One upstream pool "u" of n backends. *)
OnePool(n, hc, l) ==
    [u \in {"u"} |->
        [pool |-> BackendPool_new(Backends(n, hc)), load_balancer |-> l]]

NoHistory(n) == [u \in {"u"} |-> [i \in 0..(n - 1) |-> NoCalls]]

(* pool.mark_success(index) under the pool mutex; index may be out of range. *)
MarkSuccess(n, index) ==
    /\ upstream_pools' =
          [upstream_pools EXCEPT
              ![n].pool = mark_success(upstream_pools[n].pool, index, now).pool]
    /\ last_pick' = None
    /\ UNCHANGED now

MarkFailure(n, index) ==
    /\ upstream_pools' =
          [upstream_pools EXCEPT
              ![n].pool = mark_failure(upstream_pools[n].pool, index, now).pool]
    /\ last_pick' = None
    /\ UNCHANGED now

(* The same calls, with the history of the calls kept. *)
RecordedMarkSuccess(n, index) ==
    /\ MarkSuccess(n, index)
    /\ calls' = IF index \in DOMAIN upstream_pools[n].pool
                THEN [calls EXCEPT ![n][index] =
                         AfterSuccess(@, upstream_pools[n].pool[index])]
                ELSE calls

RecordedMarkFailure(n, index) ==
    /\ MarkFailure(n, index)
    /\ calls' = IF index \in DOMAIN upstream_pools[n].pool
                THEN [calls EXCEPT ![n][index] =
                         AfterFailure(@, upstream_pools[n].pool[index],
                             mark_failure(upstream_pools[n].pool, index, now).transition,
                             now)]
                ELSE calls

Pick(n, key) ==
    /\ upstream_pools[n].load_balancer.kind = "RoundRobin"
          => upstream_pools[n].load_balancer.next < MaxPicks
    /\ \E o \in UpstreamPool_pick(upstream_pools[n], key) :
          /\ upstream_pools' = [upstream_pools EXCEPT ![n] = o.up]
          /\ last_pick' = [some |-> TRUE, upstream |-> n, key |-> key,
                           result |-> o.result]
    /\ UNCHANGED <<now, calls>>

Tick ==
    /\ now < MaxTime
    /\ now' = now + 1
    /\ last_pick' = None
    /\ UNCHANGED <<upstream_pools, calls>>

(* The variables of the components a specification leaves out. *)
LBUnused ==
    /\ now = 0
    /\ upstream_pools = <<>>
    /\ calls = <<>>
    /\ last_pick = None

PoolUnused ==
    /\ max_inflight = 0
    /\ permits = <<>>
    /\ waiters = <<>>
    /\ senders = <<>>

BridgeUnused ==
    /\ bridge_in = None
    /\ bridge_out = None

ReqUnused ==
    /\ stream_state = <<>>
    /\ streams = <<>>
    /\ metrics = <<>>
    /\ dispatch = None
    /\ written = <<>>
    /\ last_finish = None
    /\ probes = 0

ConnUnused ==
    /\ connections = <<>>
    /\ draining = FALSE
    /\ drain_start = None
    /\ drain_keys = {}
    /\ last_call = None

(* SpecHealth: the health state machine under any interleaving of          *)
(* mark_success, mark_failure and clock advances.                          *)
InitHealth ==
    /\ now = 0
    /\ \E hc \in HealthChecks :
          upstream_pools = OnePool(HealthBackends, hc, RoundRobin_new)
    /\ calls = NoHistory(HealthBackends)
    /\ last_pick = None
    /\ PoolUnused
    /\ BridgeUnused
    /\ ReqUnused
    /\ ConnUnused

NextHealth ==
    \/ \E i \in 0..HealthBackends : RecordedMarkSuccess("u", i) /\ UNCHANGED OutsideLB
    \/ \E i \in 0..HealthBackends : RecordedMarkFailure("u", i) /\ UNCHANGED OutsideLB
    \/ Tick /\ UNCHANGED OutsideLB

SpecHealth == InitHealth /\ [][NextHealth]_vars

(* SpecLB: picks of each strategy on a pool whose health changes. The     *)
(* backends recover at their first success, with no cooldown.              *)
InitLB ==
    /\ now = 0
    /\ \E hc \in HealthChecks, l \in Strategies :
          /\ hc.success_threshold = 1
          /\ hc.cooldown_ms = 0
          /\ upstream_pools = OnePool(NumBackends, hc, l)
    /\ calls = NoHistory(NumBackends)
    /\ last_pick = None
    /\ PoolUnused
    /\ BridgeUnused
    /\ ReqUnused
    /\ ConnUnused

NextLB ==
    \/ \E i \in 0..NumBackends : MarkSuccess("u", i) /\ UNCHANGED <<calls, OutsideLB>>
    \/ \E i \in 0..NumBackends : MarkFailure("u", i) /\ UNCHANGED <<calls, OutsideLB>>
    \/ \E key \in Keys : Pick("u", key) /\ UNCHANGED OutsideLB

SpecLB == InitLB /\ [][NextLB]_vars

-----------------------------------------------------------------------------
(* H2Pool: one client and one semaphore of max(max_inflight, 1) permits    *)
(* per backend address. A sender is in one of                              *)
(*   "idle"      not in send (outcome tells how its last send ended),      *)
(*   "queued"    awaiting inflight.acquire(), in the semaphore's queue,    *)
(*   "granted"   handed a permit by a release, not yet resumed,            *)
(*   "inflight"  holding _permit, awaiting client.send(req).               *)

Senders == 1..NumSenders

(* The addresses H2Pool::new was given, and one it was not given. *)
PoolAddresses == {Address(i) : i \in 0..(NumBackends - 1)}
UnknownAddress == Address(NumBackends)

capacity(m) == Max2(m, 1)

H2Pool_new(backends, m) == [a \in backends |-> capacity(m)]

Idle(outcome) == [pc |-> "idle", backend |-> <<>>, outcome |-> outcome]

(* A release that hands the permit to the first waiter and also returns it *)
(* to the semaphore.                                                       *)
release_twice(a, ps, ws, ss) ==
    IF ws[a] # <<>>
    THEN [permits |-> [ps EXCEPT ![a] = @ + 1],
          waiters |-> [ws EXCEPT ![a] = Tail(@)],
          senders |-> [ss EXCEPT ![Head(ws[a])].pc = "granted"]]
    ELSE [permits |-> [ps EXCEPT ![a] = @ + 1], waiters |-> ws, senders |-> ss]

(* A release that hands the permit to the waiter that queued last. *)
release_to_last(a, ps, ws, ss) ==
    IF ws[a] # <<>>
    THEN [permits |-> ps,
          waiters |-> [ws EXCEPT ![a] = SubSeq(@, 1, Len(@) - 1)],
          senders |-> [ss EXCEPT ![ws[a][Len(ws[a])]].pc = "granted"]]
    ELSE [permits |-> [ps EXCEPT ![a] = @ + 1], waiters |-> ws, senders |-> ss]

(* Dropping a permit: Semaphore::release hands it to the first waiter, or  *)
(* returns it to the semaphore when nobody waits. Gives the new permits,   *)
(* waiters and senders.                                                    *)
release(a, ps, ws, ss) ==
    IF ws[a] # <<>>
    THEN [permits |-> ps,
          waiters |-> [ws EXCEPT ![a] = Tail(@)],
          senders |-> [ss EXCEPT ![Head(ws[a])].pc = "granted"]]
    ELSE [permits |-> [ps EXCEPT ![a] = @ + 1], waiters |-> ws, senders |-> ss]

(* PoolError::UnknownBackend(backend.to_string()): the send is over and    *)
(* its error carries the address it was asked for.                         *)
UnknownBackend(a) == [pc |-> "idle", backend |-> a, outcome |-> "UnknownBackend"]

(* A send that takes a permit of the first configured backend before it    *)
(* looks the address up.                                                   *)
SendStart_acquiring_first(c, a) ==
    /\ senders[c].pc = "idle"
    /\ LET b == IF a \in DOMAIN permits THEN a ELSE Address(0)
       IN IF permits[b] > 0
          THEN /\ permits' = [permits EXCEPT ![b] = @ - 1]
               /\ senders' = [senders EXCEPT ![c] =
                                 IF a \in DOMAIN permits
                                 THEN [pc |-> "inflight", backend |-> a, outcome |-> "none"]
                                 ELSE UnknownBackend(a)]
               /\ UNCHANGED waiters
          ELSE /\ waiters' = [waiters EXCEPT ![b] = Append(@, c)]
               /\ senders' = [senders EXCEPT ![c] =
                                 [pc |-> "queued", backend |-> b, outcome |-> "none"]]
               /\ UNCHANGED permits
    /\ UNCHANGED max_inflight

(* send(backend, req) up to its first await: an unknown backend fails at   *)
(* once; otherwise the sender takes a permit or queues for one.            *)
SendStart(c, a) ==
    /\ senders[c].pc = "idle"
    /\ IF a \notin DOMAIN permits
       THEN /\ senders' = [senders EXCEPT ![c] = UnknownBackend(a)]
            /\ UNCHANGED <<permits, waiters>>
       ELSE IF permits[a] > 0
       THEN /\ permits' = [permits EXCEPT ![a] = @ - 1]
            /\ senders' = [senders EXCEPT ![c] =
                              [pc |-> "inflight", backend |-> a, outcome |-> "none"]]
            /\ UNCHANGED waiters
       ELSE /\ waiters' = [waiters EXCEPT ![a] = Append(@, c)]
            /\ senders' = [senders EXCEPT ![c] =
                              [pc |-> "queued", backend |-> a, outcome |-> "none"]]
            /\ UNCHANGED permits
    /\ UNCHANGED max_inflight

(* A sender that was handed a permit resumes and dispatches its request. *)
SendResume(c) ==
    /\ senders[c].pc = "granted"
    /\ senders' = [senders EXCEPT ![c].pc = "inflight"]
    /\ UNCHANGED <<max_inflight, permits, waiters>>

(* client.send(req) returns (a response or a transport error), send        *)
(* returns and _permit is dropped.                                         *)
SendReturn(c, outcome) ==
    /\ senders[c].pc = "inflight"
    /\ LET r == release(senders[c].backend, permits, waiters,
                        [senders EXCEPT ![c] = Idle(outcome)])
       IN /\ permits' = r.permits
          /\ waiters' = r.waiters
          /\ senders' = r.senders
    /\ UNCHANGED max_inflight

(* A cancellation that forgets the permit of a send in flight. *)
SendCancel_keeping_permit(c) ==
    /\ senders[c].pc \in {"queued", "granted", "inflight"}
    /\ waiters' = [waiters EXCEPT ![senders[c].backend] =
                      SelectSeq(@, LAMBDA w : w # c)]
    /\ senders' = [senders EXCEPT ![c] = Idle("Cancelled")]
    /\ UNCHANGED <<permits, max_inflight>>

(* The caller's tokio::time::timeout fires and drops the send future:      *)
(* while queued it leaves the queue; once it holds a permit (granted or    *)
(* in flight) the permit is dropped with it.                               *)
SendCancel(c) ==
    /\ senders[c].pc \in {"queued", "granted", "inflight"}
    /\ IF senders[c].pc = "queued"
       THEN /\ waiters' = [waiters EXCEPT ![senders[c].backend] =
                              SelectSeq(@, LAMBDA w : w # c)]
            /\ senders' = [senders EXCEPT ![c] = Idle("Cancelled")]
            /\ UNCHANGED permits
       ELSE LET r == release(senders[c].backend, permits, waiters,
                             [senders EXCEPT ![c] = Idle("Cancelled")])
            IN /\ permits' = r.permits
               /\ waiters' = r.waiters
               /\ senders' = r.senders
    /\ UNCHANGED max_inflight

InitPool ==
    /\ \E m \in 0..MaxInflight :
          /\ max_inflight = m
          /\ permits = H2Pool_new(PoolAddresses, m)
    /\ waiters = [a \in PoolAddresses |-> <<>>]
    /\ senders = [c \in Senders |-> Idle("none")]
    /\ LBUnused
    /\ BridgeUnused
    /\ ReqUnused
    /\ ConnUnused

NextPool ==
    \/ \E c \in Senders, a \in PoolAddresses \cup {UnknownAddress} :
          SendStart(c, a) /\ UNCHANGED OutsidePool
    \/ \E c \in Senders : SendResume(c) /\ UNCHANGED OutsidePool
    \/ \E c \in Senders, outcome \in {"Ok", "SendError"} :
          SendReturn(c, outcome) /\ UNCHANGED OutsidePool
    \/ \E c \in Senders : SendCancel(c) /\ UNCHANGED OutsidePool

SpecPool == InitPool /\ [][NextPool]_vars

(* SpecPoolFair: the pool when every request that was dispatched returns   *)
(* (client.send resolves) and the runtime polls every task it has woken.   *)
(* Callers are free to start sends or to give up at any time.              *)
SpecPoolFair ==
    /\ SpecPool
    /\ \A c \in Senders :
          /\ WF_vars(SendResume(c) /\ UNCHANGED OutsidePool)
          /\ WF_vars((\E outcome \in {"Ok", "SendError"} : SendReturn(c, outcome))
                        /\ UNCHANGED OutsidePool)

(* The sends on backend a that hold a permit. *)
Holding(a) == {c \in Senders : senders[c].backend = a
                               /\ senders[c].pc \in {"granted", "inflight"}}

(* The sends on backend a that acquired a permit and have not returned. *)
Outstanding(a) == {c \in Senders : senders[c].backend = a /\ senders[c].pc = "inflight"}

-----------------------------------------------------------------------------
(* The H3 -> H2 bridge and the response written back over HTTP/3. Names,   *)
(* values, methods and paths are byte strings.                             *)

B_method == <<58, 109, 101, 116, 104, 111, 100>>                \* ":method"
B_status == <<58, 115, 116, 97, 116, 117, 115>>                 \* ":status"
B_host == <<104, 111, 115, 116>>                                \* "host"
B_Connection == <<67, 111, 110, 110, 101, 99, 116, 105, 111, 110>>   \* "Connection"
B_connection == <<99, 111, 110, 110, 101, 99, 116, 105, 111, 110>>   \* "connection"
B_keep_alive == <<107, 101, 101, 112, 45, 97, 108, 105, 118, 101>>   \* "keep-alive"
B_proxy_connection ==                                           \* "proxy-connection"
    <<112, 114, 111, 120, 121, 45, 99, 111, 110, 110, 101, 99, 116, 105, 111, 110>>
B_transfer_encoding ==                                          \* "transfer-encoding"
    <<116, 114, 97, 110, 115, 102, 101, 114, 45, 101, 110, 99, 111, 100, 105, 110, 103>>
B_upgrade == <<117, 112, 103, 114, 97, 100, 101>>               \* "upgrade"
B_content_length ==                                             \* "content-length"
    <<99, 111, 110, 116, 101, 110, 116, 45, 108, 101, 110, 103, 116, 104>>
B_content_type == <<99, 111, 110, 116, 101, 110, 116, 45, 116, 121, 112, 101>>  \* "content-type"
B_accept == <<97, 99, 99, 101, 112, 116>>                       \* "accept"
B_bad_name == <<97, 32, 98>>                                    \* "a b"
B_GET == <<71, 69, 84>>                                         \* "GET"
B_bad_method == <<71, 32, 84>>                                  \* "G T"
B_path_a == <<47, 97>>                                          \* "/a"
B_bad_path == <<47, 97, 32, 98>>                                \* "/a b"
B_close == <<99, 108, 111, 115, 101>>                           \* "close"
B_bad_value == <<120, 10, 121>>                                 \* "x\ny"
B_slash == <<47>>                                               \* "/"

(* is_hop_header without its last alternative. *)
is_hop_header_without_upgrade(name) ==
    name \in {B_connection, B_keep_alive, B_proxy_connection, B_transfer_encoding}

is_hop_header(name) ==
    name \in {B_connection, B_keep_alive, B_proxy_connection,
              B_transfer_encoding, B_upgrade}

(* The bytes of an HTTP token: letters, digits and ! # $ % & ' * + - . ^ _ ` | ~ *)
IsTokenByte(b) ==
    \/ b \in 48..57 \/ b \in 65..90 \/ b \in 97..122
    \/ b \in {33, 35, 36, 37, 38, 39, 42, 43, 45, 46, 94, 95, 96, 124, 126}

IsToken(bytes) == bytes # <<>> /\ \A i \in DOMAIN bytes : IsTokenByte(bytes[i])

(* HeaderName::from_bytes: a token, normalised to lower case. *)
LowerByte(b) == IF b \in 65..90 THEN b + 32 ELSE b
HeaderName_from_bytes(name) ==
    IF IsToken(name) THEN Some([i \in DOMAIN name |-> LowerByte(name[i])]) ELSE None

(* HeaderValue::from_bytes: visible bytes, space and tab. *)
HeaderValue_valid(value) ==
    \A i \in DOMAIN value : value[i] = 9 \/ (value[i] >= 32 /\ value[i] # 127)

(* Method::from_bytes. *)
Method_valid(method) == IsToken(method)

(* Uri::try_from("http://{backend}{path}"): no space or control byte. *)
Uri_valid(uri) == \A i \in DOMAIN uri : uri[i] > 32 /\ uri[i] < 127

B_http == <<104, 116, 116, 112, 58, 47, 47>>                    \* "http://"

Ok(x) == [ok |-> TRUE, value |-> x]
Err(e) == [ok |-> FALSE, error |-> e]

(* The loop over the inbound headers from header i on: the headers added   *)
(* to the builder so far, and whether a host header was seen.              *)
RECURSIVE CopyHeaders(_, _, _, _)
CopyHeaders(headers, i, out, saw_host) ==
    IF i > Len(headers) THEN Ok([headers |-> out, saw_host |-> saw_host])
    ELSE LET name == headers[i].name
             value == headers[i].value
             header_name == HeaderName_from_bytes(name)
         IN IF name # <<>> /\ name[1] = 58
            THEN CopyHeaders(headers, i + 1, out, saw_host)
            ELSE IF ~ header_name.some THEN Err("InvalidHeader")
            ELSE IF header_name.value = B_content_length
            THEN CopyHeaders(headers, i + 1, out,
                             saw_host \/ header_name.value = B_host)
            ELSE IF ~ HeaderValue_valid(value) THEN Err("InvalidHeader")
            ELSE CopyHeaders(headers, i + 1,
                             Append(out, [name |-> header_name.value, value |-> value]),
                             saw_host \/ header_name.value = B_host)

build_h2_request(backend, method, path, headers, body) ==
    IF ~ Method_valid(method) THEN Err("InvalidMethod")
    ELSE LET request_path == IF path = <<>> THEN B_slash ELSE path
             uri == B_http \o backend \o request_path
         IN IF ~ Uri_valid(uri) THEN Err("InvalidUri")
            ELSE LET copied == CopyHeaders(headers, 1, <<>>, FALSE) IN
            IF ~ copied.ok THEN copied
            ELSE LET with_host ==
                         IF copied.value.saw_host THEN copied.value.headers
                         ELSE Append(copied.value.headers,
                                     [name |-> B_host, value |-> backend])
                     with_length ==
                         IF body # <<>>
                         THEN Append(with_host,
                                     [name |-> B_content_length,
                                      value |-> ToStringBytes(Len(body))])
                         ELSE with_host
                 IN IF ~ copied.value.saw_host /\ ~ HeaderValue_valid(backend)
                    THEN Err("Build")
                    ELSE Ok([method |-> method, uri |-> uri,
                             headers |-> with_length, body |-> body])

(* The header list send_backend_response hands to h3.send_response. *)
response_headers(status, headers, body) ==
    <<[name |-> B_status, value |-> ToStringBytes(status)]>>
    \o SelectSeq(headers,
                 LAMBDA h : ~ (is_hop_header(h.name) \/ h.name = B_content_length))
    \o <<[name |-> B_content_length, value |-> ToStringBytes(Len(body))]>>

(* The inputs. *)
Bodies == UNION {[1..n -> {120}] : n \in 0..MaxBody}

SeqsUpTo(S, n) == UNION {[1..k -> S] : k \in 0..n}

InboundNames ==
    {B_method, B_host, B_Connection, B_connection, B_keep_alive, B_proxy_connection,
     B_transfer_encoding, B_upgrade, B_content_length, B_accept, B_bad_name}

RequestInputs ==
    [kind : {"request"},
     backend : {Address(0)},
     target : {[method |-> B_GET, path |-> B_path_a],
               [method |-> B_GET, path |-> <<>>],
               [method |-> B_bad_method, path |-> B_path_a],
               [method |-> B_GET, path |-> B_bad_path]},
     headers : SeqsUpTo([name : InboundNames, value : {B_close, B_bad_value}], MaxHeaders),
     body : Bodies]

(* The names of an http::HeaderMap are lower-case tokens, and iterating it *)
(* yields the values of one name together.                                 *)
UpstreamNames ==
    {B_connection, B_keep_alive, B_proxy_connection, B_transfer_encoding,
     B_upgrade, B_content_length, B_content_type}

Grouped(hs) ==
    \A i, k \in DOMAIN hs :
        (i < k /\ hs[i].name = hs[k].name) =>
            \A j \in i..k : hs[j].name = hs[i].name

ResponseInputs ==
    [kind : {"response"},
     status : {200, 503},
     headers : {hs \in SeqsUpTo([name : UpstreamNames, value : {B_close}], MaxHeaders) :
                   Grouped(hs)},
     body : Bodies]

InitBridge ==
    /\ bridge_in \in RequestInputs \cup ResponseInputs
    /\ bridge_out = None
    /\ LBUnused
    /\ PoolUnused
    /\ ReqUnused
    /\ ConnUnused

(* forward_request: the envelope goes through build_h2_request. *)
BuildRequest ==
    /\ bridge_in.kind = "request"
    /\ bridge_out = None
    /\ bridge_out' = Some(build_h2_request(bridge_in.backend, bridge_in.target.method,
                                           bridge_in.target.path, bridge_in.headers,
                                           bridge_in.body))
    /\ UNCHANGED bridge_in

(* send_backend_response: h3.send_response and h3.send_body may each fail, *)
(* and then nothing more is written.                                       *)
SendBackendResponse ==
    /\ bridge_in.kind = "response"
    /\ bridge_out = None
    /\ \E headers_sent \in BOOLEAN, body_sent \in BOOLEAN :
          /\ body_sent => headers_sent
          /\ bridge_out' =
                Some([headers |-> IF headers_sent
                                  THEN Some(response_headers(bridge_in.status,
                                                bridge_in.headers, bridge_in.body))
                                  ELSE None,
                      body |-> IF body_sent THEN Some(bridge_in.body) ELSE None])
    /\ UNCHANGED bridge_in

NextBridge ==
    \/ BuildRequest /\ UNCHANGED OutsideBridge
    \/ SendBackendResponse /\ UNCHANGED OutsideBridge

SpecBridge == InitBridge /\ [][NextBridge]_vars

-----------------------------------------------------------------------------
(* The request dispatch of the listener on one connection: the HTTP/3      *)
(* events of handle_h3, handle_request_finish and the Metrics counters.    *)

B_path == <<58, 112, 97, 116, 104>>                             \* ":path"
B_authority == <<58, 97, 117, 116, 104, 111, 114, 105, 116, 121>>    \* ":authority"
B_path_ax == <<47, 97, 47, 120>>                                \* "/a/x"
B_path_c == <<47, 99>>                                          \* "/c"
B_b_test == <<98, 46, 116, 101, 115, 116>>                      \* "b.test"
B_text_plain == <<116, 101, 120, 116, 47, 112, 108, 97, 105, 110>>   \* "text/plain"
B_invalid_request ==                                            \* "invalid request\n"
    <<105, 110, 118, 97, 108, 105, 100, 32, 114, 101, 113, 117, 101, 115, 116, 10>>
B_no_servers ==                          \* "no servers configured for upstream\n"
    <<110, 111, 32, 115, 101, 114, 118, 101, 114, 115, 32, 99, 111, 110, 102, 105,
      103, 117, 114, 101, 100, 32, 102, 111, 114, 32, 117, 112, 115, 116, 114, 101,
      97, 109, 10>>
B_no_healthy ==                                                 \* "no healthy servers\n"
    <<110, 111, 32, 104, 101, 97, 108, 116, 104, 121, 32, 115, 101, 114, 118, 101,
      114, 115, 10>>
B_invalid_server ==                                             \* "invalid server\n"
    <<105, 110, 118, 97, 108, 105, 100, 32, 115, 101, 114, 118, 101, 114, 10>>
B_upstream_error ==                                             \* "upstream error\n"
    <<117, 112, 115, 116, 114, 101, 97, 109, 32, 101, 114, 114, 111, 114, 10>>
B_upstream_timeout ==                                           \* "upstream timeout\n"
    <<117, 112, 115, 116, 114, 101, 97, 109, 32, 116, 105, 109, 101, 111, 117, 116, 10>>

(* config.upstream: upstream "a" serves the paths under "/a" on any host,  *)
(* upstream "b" serves every path of the host "b.test".                    *)
ConfigUpstreams ==
    [n \in {"a", "b"} |->
        IF n = "a"
        THEN [route |-> [host |-> None, path_prefix |-> Some(B_path_a)],
              backends |-> NumBackends]
        ELSE [route |-> [host |-> Some(B_b_test), path_prefix |-> None],
              backends |-> 1]]

starts_with(s, prefix) ==
    Len(prefix) <= Len(s) /\ SubSeq(s, 1, Len(prefix)) = prefix

(* The upstreams the loop of find_upstream_for_request can take as a match, *)
(* each with its path_match_len.                                           *)
RouteMatches(upstreams, path, host) ==
    {[name |-> n,
      path_match_len |-> IF upstreams[n].route.path_prefix.some
                         THEN Len(upstreams[n].route.path_prefix.value) ELSE 0] :
        n \in {m \in DOMAIN upstreams :
                 /\ upstreams[m].route.path_prefix.some
                       => starts_with(path, upstreams[m].route.path_prefix.value)
                 /\ upstreams[m].route.host.some
                       => (host.some /\ upstreams[m].route.host.value = host.value)}}

(* The loop keeps a match only when it is strictly longer than the best so *)
(* far, and a HashMap is iterated in no particular order: the result is    *)
(* any of the matches of the greatest length, or None when nothing matches. *)
find_upstream_for_request(upstreams, path, host) ==
    LET matches == RouteMatches(upstreams, path, host)
    IN IF matches = {} THEN {None}
       ELSE {Some(m.name) :
                m \in {x \in matches :
                         \A y \in matches : y.path_match_len <= x.path_match_len}}

request_hash_key(req) ==
    IF req.authority.some THEN req.authority.value
    ELSE IF req.path # <<>> THEN req.path
    ELSE req.method

(* String::from_utf8_lossy on bytes of which none starts a valid multi-byte *)
(* sequence: an ASCII byte is itself, any other becomes U+FFFD.            *)
RECURSIVE from_utf8_lossy(_)
from_utf8_lossy(bytes) ==
    IF bytes = <<>> THEN <<>>
    ELSE (IF bytes[1] < 128 THEN <<bytes[1]>> ELSE <<239, 191, 189>>)
         \o from_utf8_lossy(Tail(bytes))

(* The value of the last header of `list` whose name is in `names`. *)
LastHeader(list, names) ==
    LET found == {i \in DOMAIN list : list[i].name \in names}
    IN IF found = {} THEN None
       ELSE Some(from_utf8_lossy(
                list[CHOOSE i \in found : \A j \in found : j <= i].value))

(* The envelope the Headers arm of handle_h3 builds from a header list. *)
RequestEnvelope(list) ==
    [method |-> IF LastHeader(list, {B_method}).some
                THEN LastHeader(list, {B_method}).value ELSE <<>>,
     path |-> IF LastHeader(list, {B_path}).some
              THEN LastHeader(list, {B_path}).value ELSE <<>>,
     authority |-> LastHeader(list, {B_authority, B_host}),
     headers |-> list,
     body |-> <<>>]

NoMetrics ==
    [requests_total |-> 0, requests_success |-> 0, requests_failure |-> 0,
     backend_timeouts |-> 0, backend_errors |-> 0]

(* The counters without inc_failure. *)
inc_dropping_failures(m, counter) ==
    IF counter = "requests_failure" THEN m ELSE [m EXCEPT ![counter] = @ + 1]

(* Metrics::inc_total, inc_success, inc_failure, inc_timeout, inc_backend_error *)
inc(m, counter) == [m EXCEPT ![counter] = @ + 1]

(* The response send_simple_response writes. *)
send_simple_response(status, body) ==
    [headers |-> <<[name |-> B_status, value |-> ToStringBytes(status)],
                   [name |-> B_content_type, value |-> B_text_plain],
                   [name |-> B_content_length, value |-> ToStringBytes(Len(body))]>>,
     body |-> body]

(* send_backend_response answering 200 whatever the upstream status. *)
send_backend_response_as_ok(status, headers, body) ==
    [headers |-> response_headers(200, headers, body), body |-> body]

(* The response send_backend_response writes. *)
send_backend_response(status, headers, body) ==
    [headers |-> response_headers(status, headers, body), body |-> body]

(* StatusCode::is_server_error without its upper end. *)
is_server_error_or_above(status) == status >= 500

is_server_error(status) == status >= 500 /\ status < 600

(* h3.send_response and h3.send_body may each fail: the response is sent,  *)
(* or only its headers are, or nothing is.                                 *)
WriteOutcomes == {"sent", "headers", "nothing"}

Written(stream_id, response, w) ==
    IF w = "nothing" THEN <<>>
    ELSE <<[stream_id |-> stream_id, headers |-> response.headers,
            body |-> IF w = "sent" THEN Some(response.body) ELSE None]>>

(* The client-initiated bidirectional streams of the connection. *)
StreamIds == {0, 4}

H(name, value) == [name |-> name, value |-> value]

(* The header lists of the Headers events. *)
HeaderLists ==
    {<<H(B_method, B_GET), H(B_path, B_path_c)>>,
     <<H(B_path, B_path_ax)>>,
     <<H(B_method, B_bad_method), H(B_path, B_path_ax)>>,
     <<H(B_method, B_GET), H(B_path, B_path_c), H(B_authority, B_b_test)>>,
     <<H(B_method, B_GET), H(B_path, B_path_ax), H(B_host, B_b_test),
       H(B_connection, B_close)>>}

(* What forward_request can return once the request is built: an upstream  *)
(* response (a StatusCode is any of 100..999), a transport error or a      *)
(* timeout.                                                                *)
ForwardOutcomes ==
    {[kind |-> "Ok", status |-> s, headers |-> <<H(B_connection, B_close)>>,
      body |-> <<120>>] : s \in {200, 500, 600}}
    \cup {[kind |-> "Transport"], [kind |-> "Timeout"]}

(* The pools QUICListener::new builds from config.upstream. *)
ReqPools(hc) ==
    [n \in DOMAIN ConfigUpstreams |->
        [pool |-> BackendPool_new(Backends(ConfigUpstreams[n].backends, hc)),
         load_balancer |-> Random_new]]

InitReq ==
    /\ now = 0
    /\ \E hc \in HealthChecks :
          /\ hc.cooldown_ms = 0
          /\ hc.success_threshold = 1
          /\ upstream_pools = ReqPools(hc)
    /\ calls = <<>>
    /\ last_pick = None
    /\ stream_state = [s \in StreamIds |-> "idle"]
    /\ streams = [s \in StreamIds |-> None]
    /\ metrics = NoMetrics
    /\ dispatch = None
    /\ written = <<>>
    /\ last_finish = None
    /\ probes = 0
    /\ PoolUnused
    /\ BridgeUnused
    /\ ConnUnused

(* Event::Headers without inc_total. *)
HeadersEventUpTo_uncounted(limit, stream_id, list) ==
    /\ dispatch = None
    /\ stream_state[stream_id] \in {"idle", "open"}
    /\ metrics.requests_total < limit
    /\ stream_state' = [stream_state EXCEPT ![stream_id] = "open"]
    /\ streams' = [streams EXCEPT ![stream_id] = Some(RequestEnvelope(list))]
    /\ last_finish' = None
    /\ written' = <<>>
    /\ UNCHANGED <<now, upstream_pools, metrics, dispatch, probes>>

(* Event::Headers: a new envelope replaces the one the stream may have; at *)
(* most `limit` Headers events are taken.                                  *)
HeadersEventUpTo(limit, stream_id, list) ==
    /\ dispatch = None
    /\ stream_state[stream_id] \in {"idle", "open"}
    /\ metrics.requests_total < limit
    /\ stream_state' = [stream_state EXCEPT ![stream_id] = "open"]
    /\ metrics' = inc(metrics, "requests_total")
    /\ streams' = [streams EXCEPT ![stream_id] = Some(RequestEnvelope(list))]
    /\ last_finish' = None
    /\ written' = <<>>
    /\ UNCHANGED <<now, upstream_pools, dispatch, probes>>

HeadersEvent(stream_id, list) == HeadersEventUpTo(MaxRequests, stream_id, list)

(* An Event::Data handled while forward_request has not returned. *)
DataEvent_during_dispatch(stream_id, chunk) ==
    /\ stream_state[stream_id] = "open"
    /\ streams[stream_id].some => Len(streams[stream_id].value.body) < MaxBody
    /\ streams' = IF streams[stream_id].some
                  THEN [streams EXCEPT ![stream_id].value.body = @ \o chunk]
                  ELSE streams
    /\ last_finish' = None
    /\ written' = <<>>
    /\ UNCHANGED <<now, upstream_pools, stream_state, metrics, dispatch, probes>>

(* Event::Data: the chunks read are appended to the body of the envelope. *)
DataEvent(stream_id, chunk) ==
    /\ dispatch = None
    /\ stream_state[stream_id] = "open"
    /\ streams[stream_id].some => Len(streams[stream_id].value.body) < MaxBody
    /\ streams' = IF streams[stream_id].some
                  THEN [streams EXCEPT ![stream_id].value.body = @ \o chunk]
                  ELSE streams
    /\ last_finish' = None
    /\ written' = <<>>
    /\ UNCHANGED <<now, upstream_pools, stream_state, metrics, dispatch, probes>>

(* An Event::Reset that leaves the envelope of the stream in the table. *)
ResetEvent_keeping_envelope(stream_id) ==
    /\ dispatch = None
    /\ stream_state[stream_id] \in {"idle", "open"}
    /\ stream_state' = [stream_state EXCEPT ![stream_id] = "reset"]
    /\ last_finish' = None
    /\ written' = <<>>
    /\ UNCHANGED <<now, upstream_pools, streams, metrics, dispatch, probes>>

(* Event::Reset *)
ResetEvent(stream_id) ==
    /\ dispatch = None
    /\ stream_state[stream_id] \in {"idle", "open"}
    /\ stream_state' = [stream_state EXCEPT ![stream_id] = "reset"]
    /\ streams' = [streams EXCEPT ![stream_id] = None]
    /\ last_finish' = None
    /\ written' = <<>>
    /\ UNCHANGED <<now, upstream_pools, metrics, dispatch, probes>>

(* handle_request_finish returns without forwarding: it wrote `response`,  *)
(* or returned an error before writing anything (response = None).         *)
Rejected(stream_id, req, outcome, response) ==
    /\ \E w \in WriteOutcomes :
          written' = IF response.some
                     THEN Written(stream_id, response.value, w)
                     ELSE <<>>
    /\ last_finish' = [some |-> TRUE, stream_id |-> stream_id, req |-> req,
                       before |-> metrics, outcome |-> outcome,
                       pools_before |-> upstream_pools]
    /\ UNCHANGED <<metrics, dispatch>>

(* handle_request_finish resolving the route before it looks at the method *)
(* and the path, and counting a rejection as a failure of the first        *)
(* backend of the upstream.                                                *)
handle_request_finish_route_first(stream_id, req) ==
    \E upstream_name \in
           find_upstream_for_request(ConfigUpstreams, req.path, req.authority) :
    IF ~ upstream_name.some
    THEN /\ Rejected(stream_id, req, "no route", None)
         /\ UNCHANGED upstream_pools
    ELSE IF req.method = <<>> \/ req.path = <<>>
    THEN /\ Rejected(stream_id, req, "invalid request",
                     Some(send_simple_response(400, B_invalid_request)))
         /\ upstream_pools' =
               [upstream_pools EXCEPT ![upstream_name.value].pool =
                   mark_failure(@, 0, now).pool]
    ELSE \E o \in UpstreamPool_pick(upstream_pools[upstream_name.value],
                                    request_hash_key(req)) :
         /\ upstream_pools' = [upstream_pools EXCEPT ![upstream_name.value] = o.up]
         /\ IF ~ o.result.some
            THEN Rejected(stream_id, req, "no healthy servers",
                          Some(send_simple_response(503, B_no_healthy)))
            ELSE /\ dispatch' =
                       Some([stream_id |-> stream_id, req |-> req,
                             upstream_name |-> upstream_name.value,
                             backend_index |-> o.result.value,
                             backend_addr |-> address(o.up.pool, o.result.value).value,
                             before |-> metrics])
                 /\ last_finish' = None
                 /\ written' = <<>>
                 /\ UNCHANGED metrics

(* handle_request_finish up to the call of forward_request. *)
handle_request_finish(stream_id, req) ==
    IF req.method = <<>> \/ req.path = <<>>
    THEN /\ Rejected(stream_id, req, "invalid request",
                     Some(send_simple_response(400, B_invalid_request)))
         /\ UNCHANGED upstream_pools
    ELSE \E upstream_name \in
                find_upstream_for_request(ConfigUpstreams, req.path, req.authority) :
         IF ~ upstream_name.some
         THEN /\ Rejected(stream_id, req, "no route", None)
              /\ UNCHANGED upstream_pools
         ELSE IF len(upstream_pools[upstream_name.value].pool) = 0
         THEN /\ Rejected(stream_id, req, "no servers configured",
                          Some(send_simple_response(503, B_no_servers)))
              /\ UNCHANGED upstream_pools
         ELSE \E o \in UpstreamPool_pick(upstream_pools[upstream_name.value],
                                         request_hash_key(req)) :
              /\ upstream_pools' = [upstream_pools EXCEPT ![upstream_name.value] = o.up]
              /\ IF ~ o.result.some
                 THEN Rejected(stream_id, req, "no healthy servers",
                               Some(send_simple_response(503, B_no_healthy)))
                 ELSE IF ~ address(o.up.pool, o.result.value).some
                 THEN Rejected(stream_id, req, "invalid server",
                               Some(send_simple_response(503, B_invalid_server)))
                 ELSE /\ dispatch' =
                            Some([stream_id |-> stream_id, req |-> req,
                                  upstream_name |-> upstream_name.value,
                                  backend_index |-> o.result.value,
                                  backend_addr |-> address(o.up.pool, o.result.value).value,
                                  before |-> metrics])
                      /\ last_finish' = None
                      /\ written' = <<>>
                      /\ UNCHANGED metrics

(* Event::Finished: the envelope is removed and dispatched. *)
FinishedEvent(stream_id) ==
    /\ dispatch = None
    /\ stream_state[stream_id] \in {"idle", "open"}
    /\ stream_state' = [stream_state EXCEPT ![stream_id] = "finished"]
    /\ streams' = [streams EXCEPT ![stream_id] = None]
    /\ IF streams[stream_id].some
       THEN handle_request_finish(stream_id, streams[stream_id].value)
       ELSE /\ last_finish' = None
            /\ written' = <<>>
            /\ UNCHANGED <<upstream_pools, metrics, dispatch>>
    /\ UNCHANGED <<now, probes>>

(* forward_request returns and handle_request_finish marks the backend,    *)
(* counts the request and writes the response.                             *)
ForwardReturn ==
    /\ dispatch.some
    /\ LET d == dispatch.value
           pool == upstream_pools[d.upstream_name].pool
           built == build_h2_request(d.backend_addr, d.req.method, d.req.path,
                                     d.req.headers, d.req.body)
           Returned(outcome, status, mark, counted, response) ==
               /\ upstream_pools' =
                     [upstream_pools EXCEPT ![d.upstream_name].pool =
                         IF mark = "mark_failure"
                         THEN mark_failure(pool, d.backend_index, now).pool
                         ELSE mark_success(pool, d.backend_index, now).pool]
               /\ metrics' = counted
               /\ \E w \in WriteOutcomes :
                     written' = Written(d.stream_id, response, w)
               /\ last_finish' = [some |-> TRUE, stream_id |-> d.stream_id, req |-> d.req,
                                  before |-> d.before, outcome |-> outcome,
                                  upstream_status |-> status,
                                  upstream_name |-> d.upstream_name,
                                  pool_before |-> pool,
                                  marks |-> <<[op |-> mark, index |-> d.backend_index]>>]
       IN IF ~ built.ok
          THEN Returned("Bridge", None, "mark_failure",
                        inc(metrics, "requests_failure"),
                        send_simple_response(400, B_invalid_request))
          ELSE \E r \in ForwardOutcomes :
               CASE r.kind = "Ok" ->
                      Returned("Ok", Some(r.status),
                               IF is_server_error(r.status) THEN "mark_failure"
                               ELSE "mark_success",
                               inc(metrics, "requests_success"),
                               send_backend_response(r.status, r.headers, r.body))
                 [] r.kind = "Transport" ->
                      Returned("Transport", None, "mark_failure",
                               inc(inc(metrics, "requests_failure"), "backend_errors"),
                               send_simple_response(502, B_upstream_error))
                 [] r.kind = "Timeout" ->
                      Returned("Timeout", None, "mark_failure",
                               inc(inc(metrics, "requests_failure"), "backend_timeouts"),
                               send_simple_response(503, B_upstream_timeout))
    /\ dispatch' = None
    /\ UNCHANGED <<now, stream_state, streams, probes>>

(* A health-check task reports its probe of backend index of upstream n. *)
HealthProbe(n, index, healthy) ==
    /\ probes < MaxProbes
    /\ probes' = probes + 1
    /\ IF healthy THEN MarkSuccess(n, index) ELSE MarkFailure(n, index)
    /\ last_finish' = None
    /\ written' = <<>>
    /\ UNCHANGED <<stream_state, streams, metrics, dispatch>>

NextReq ==
    \/ \E s \in StreamIds, list \in HeaderLists :
          HeadersEvent(s, list) /\ UNCHANGED OutsideReq
    \/ \E s \in StreamIds : DataEvent(s, <<120>>) /\ UNCHANGED OutsideReq
    \/ \E s \in StreamIds : FinishedEvent(s) /\ UNCHANGED OutsideReq
    \/ \E s \in StreamIds : ResetEvent(s) /\ UNCHANGED OutsideReq
    \/ ForwardReturn /\ UNCHANGED OutsideReq
    \/ \E n \in DOMAIN ConfigUpstreams, healthy \in BOOLEAN :
          \E i \in 0..(ConfigUpstreams[n].backends - 1) :
             HealthProbe(n, i, healthy) /\ UNCHANGED <<calls, poolvars, bridgevars, connvars>>

SpecReq == InitReq /\ [][NextReq]_vars

(* SpecCount: the events of the streams with one request that is forwarded *)
(* and one that is rejected, one Headers event more than in SpecReq, and   *)
(* no health probes.                                                       *)
CountHeaderLists ==
    {<<H(B_method, B_GET), H(B_path, B_path_c)>>,
     <<H(B_method, B_GET), H(B_path, B_path_ax), H(B_host, B_b_test),
       H(B_connection, B_close)>>}

NextCount ==
    \/ \E s \in StreamIds, list \in CountHeaderLists :
          HeadersEventUpTo(MaxRequests + 1, s, list) /\ UNCHANGED OutsideReq
    \/ \E s \in StreamIds : DataEvent(s, <<120>>) /\ UNCHANGED OutsideReq
    \/ \E s \in StreamIds : FinishedEvent(s) /\ UNCHANGED OutsideReq
    \/ \E s \in StreamIds : ResetEvent(s) /\ UNCHANGED OutsideReq
    \/ ForwardReturn /\ UNCHANGED OutsideReq

SpecCount == InitReq /\ [][NextCount]_vars

(* SpecTrailers: the events of the streams, with what each stream has      *)
(* received kept in `calls`: the list of its first Headers event, the      *)
(* chunks of its Data events in order, and the number of times a request   *)
(* was counted for it. A Headers event on a stream that has its headers    *)
(* carries trailers: a list without pseudo-headers.                        *)
TrailerList == <<H(B_content_type, B_text_plain)>>

NothingReceived == [first |-> None, body |-> <<>>, counted |-> 0]

InitTrailers ==
    /\ now = 0
    /\ upstream_pools =
          ReqPools([failure_threshold |-> 1, success_threshold |-> 1, cooldown_ms |-> 0])
    /\ calls = [s \in StreamIds |-> NothingReceived]
    /\ last_pick = None
    /\ stream_state = [s \in StreamIds |-> "idle"]
    /\ streams = [s \in StreamIds |-> None]
    /\ metrics = NoMetrics
    /\ dispatch = None
    /\ written = <<>>
    /\ last_finish = None
    /\ probes = 0
    /\ PoolUnused
    /\ BridgeUnused
    /\ ConnUnused

TrailersHeaders(s, list) ==
    /\ stream_state[s] = "idle" => list \in CountHeaderLists
    /\ stream_state[s] = "open" => list = TrailerList
    /\ HeadersEventUpTo(MaxRequests + 1, s, list)
    /\ calls' = [calls EXCEPT ![s].first = IF @.some THEN @ ELSE Some(list),
                              ![s].counted = @ + (metrics'.requests_total
                                                    - metrics.requests_total)]

TrailersData(s, chunk) ==
    /\ DataEvent(s, chunk)
    /\ Len(calls[s].body) < MaxBody + 1
    /\ calls' = [calls EXCEPT ![s].body = IF streams[s].some \/ calls[s].first.some
                                          THEN @ \o chunk ELSE @]

TrailersFinished(s) == FinishedEvent(s) /\ UNCHANGED calls

TrailersReset(s) == ResetEvent(s) /\ UNCHANGED calls

NextTrailers ==
    \/ \E s \in StreamIds, list \in CountHeaderLists \cup {TrailerList} :
          TrailersHeaders(s, list) /\ UNCHANGED <<last_pick, poolvars, bridgevars, connvars>>
    \/ \E s \in StreamIds, chunk \in {<<120>>, <<121>>} :
          TrailersData(s, chunk) /\ UNCHANGED <<last_pick, poolvars, bridgevars, connvars>>
    \/ \E s \in StreamIds : TrailersFinished(s) /\ UNCHANGED OutsideReq
    \/ \E s \in StreamIds : TrailersReset(s) /\ UNCHANGED OutsideReq
    \/ ForwardReturn /\ UNCHANGED OutsideReq

SpecTrailers == InitTrailers /\ [][NextTrailers]_vars

-----------------------------------------------------------------------------
(* The connection table of the listener: poll routes each datagram to a    *)
(* connection or accepts a new one, handle_timeouts sweeps the table, and  *)
(* start_draining and drain_complete shut the listener down. The HTTP/3    *)
(* events of a connection are the subject of SpecReq.                      *)

SCID_LEN == 16          \* let mut scid_bytes = [0u8; 16]
MAX_CONN_ID_LEN == 20   \* quiche::MAX_CONN_ID_LEN
DRAIN_TIMEOUT == 5      \* Duration::from_secs(5), in clock ticks of one second

(* The SCIDs rand::thread_rng().fill_bytes can draw. *)
Scid(k) == [i \in 1..SCID_LEN |-> k]
Scids == {Scid(k) : k \in 1..MaxConnections}

(* A connection id chosen by a client, and one no connection was given. *)
ClientCid == [i \in 1..8 |-> 9]
UnknownCid == Scid(0)

Peers == {"p1", "p2"}

(* The datagrams: a long header carries its DCID with its length, a short  *)
(* header is followed by the DCID and then by the protected payload.       *)
Datagrams ==
    [ty : {"Initial", "Handshake"},
     cid : Scids \cup {ClientCid, Scid(1) \o <<7>>},
     rest : {<<>>},
     peer : Peers]
    \cup
    [ty : {"VersionNegotiation"}, cid : {ClientCid}, rest : {<<>>}, peer : Peers]
    \cup
    [ty : {"Short"},
     cid : Scids \cup {UnknownCid},
     rest : {<<1, 2, 3, 4>>},
     peer : Peers]
    \cup
    [ty : {"Short"}, cid : {Scid(1)}, rest : {<<>>}, peer : Peers]

(* quiche::Header::from_slice(buf, MAX_CONN_ID_LEN): the DCID of a short   *)
(* header is read as the MAX_CONN_ID_LEN bytes that follow the first byte. *)
Header_from_slice(dg) ==
    IF dg.ty = "Short"
    THEN IF Len(dg.cid \o dg.rest) < MAX_CONN_ID_LEN THEN Err("BufferTooShort")
         ELSE Ok([ty |-> dg.ty, dcid |-> SubSeq(dg.cid \o dg.rest, 1, MAX_CONN_ID_LEN)])
    ELSE IF Len(dg.cid) > MAX_CONN_ID_LEN THEN Err("InvalidPacket")
         ELSE Ok([ty |-> dg.ty, dcid |-> dg.cid])

(* HashMap::remove and HashMap::insert *)
Remove(table, key) == [k \in DOMAIN table \ {key} |-> table[k]]
Insert(table, key, value) ==
    [k \in DOMAIN table \cup {key} |-> IF k = key THEN value ELSE table[k]]

QuicConnection(scid, peer) == [scid |-> scid, peer_address |-> peer]

(* What a lookup found: the connection, the key to store it under, how it  *)
(* was found and the table it was taken from.                              *)
Found(table, key, peer, how) ==
    Some([connection |-> [table[key] EXCEPT !.peer_address = peer],
          scid |-> key, how |-> how, table |-> Remove(table, key)])

(* take_or_create_connection accepting new connections while draining. *)
take_or_create_connection_while_draining(table, is_draining, peer, header) ==
    IF header.dcid \in DOMAIN table THEN {Found(table, header.dcid, peer, "exact")}
    ELSE LET prefixed ==
                 IF header.ty = "Short" /\ Len(header.dcid) > 8
                 THEN {k \in DOMAIN table : starts_with(header.dcid, k)}
                 ELSE {}
         IN IF prefixed # {} THEN {Found(table, k, peer, "prefix") : k \in prefixed}
            ELSE IF header.ty # "Initial" THEN {None}
            ELSE {None}
                 \cup {Some([connection |-> QuicConnection(scid, peer), scid |-> scid,
                             how |-> "created", table |-> table]) :
                          scid \in Scids \ DOMAIN table}

(* take_or_create_connection accepting a connection for a datagram of any *)
(* type that matches no connection.                                        *)
take_or_create_connection_any_type(table, is_draining, peer, header) ==
    IF header.dcid \in DOMAIN table THEN {Found(table, header.dcid, peer, "exact")}
    ELSE LET prefixed ==
                 IF header.ty = "Short" /\ Len(header.dcid) > 8
                 THEN {k \in DOMAIN table : starts_with(header.dcid, k)}
                 ELSE {}
         IN IF prefixed # {} THEN {Found(table, k, peer, "prefix") : k \in prefixed}
            ELSE IF is_draining THEN {None}
            ELSE {None}
                 \cup {Some([connection |-> QuicConnection(scid, peer), scid |-> scid,
                             how |-> "created", table |-> table]) :
                          scid \in Scids \ DOMAIN table}

(* take_or_create_connection returning the DCID of the packet as the key   *)
(* of a connection found by prefix.                                        *)
take_or_create_connection_keyed_by_dcid(table, is_draining, peer, header) ==
    IF header.dcid \in DOMAIN table THEN {Found(table, header.dcid, peer, "exact")}
    ELSE LET prefixed ==
                 IF header.ty = "Short" /\ Len(header.dcid) > 8
                 THEN {k \in DOMAIN table : starts_with(header.dcid, k)}
                 ELSE {}
         IN IF prefixed # {}
            THEN {Some([connection |-> [table[k] EXCEPT !.peer_address = peer],
                        scid |-> header.dcid, how |-> "prefix",
                        table |-> Remove(table, k)]) : k \in prefixed}
            ELSE IF is_draining THEN {None}
            ELSE IF header.ty # "Initial" THEN {None}
            ELSE {None}
                 \cup {Some([connection |-> QuicConnection(scid, peer), scid |-> scid,
                             how |-> "created", table |-> table]) :
                          scid \in Scids \ DOMAIN table}

(* take_or_create_connection testing the draining flag before it looks    *)
(* for an existing connection.                                             *)
take_or_create_connection_draining_first(table, is_draining, peer, header) ==
    IF is_draining THEN {None}
    ELSE take_or_create_connection_while_draining(table, is_draining, peer, header)

(* take_or_create_connection: the possible results. A fresh SCID is 128    *)
(* random bits; a draw equal to a key of the table is left out. The result *)
(* is None as well when quiche::accept fails.                              *)
take_or_create_connection(table, is_draining, peer, header) ==
    IF header.dcid \in DOMAIN table THEN {Found(table, header.dcid, peer, "exact")}
    ELSE LET prefixed ==
                 IF header.ty = "Short" /\ Len(header.dcid) > 8
                 THEN {k \in DOMAIN table : starts_with(header.dcid, k)}
                 ELSE {}
         IN IF prefixed # {} THEN {Found(table, k, peer, "prefix") : k \in prefixed}
            ELSE IF is_draining THEN {None}
            ELSE IF header.ty # "Initial" THEN {None}
            ELSE {None}
                 \cup {Some([connection |-> QuicConnection(scid, peer), scid |-> scid,
                             how |-> "created", table |-> table]) :
                          scid \in Scids \ DOMAIN table}

(* The connection poll hands the datagram to: the exact match of the DCID, *)
(* else a connection of the same peer address, else what                   *)
(* take_or_create_connection returns.                                      *)
lookup(table, is_draining, peer, header) ==
    IF header.dcid \in DOMAIN table THEN {Found(table, header.dcid, peer, "exact")}
    ELSE IF \E k \in DOMAIN table : table[k].peer_address = peer
    THEN {Found(table, k, peer, "peer") :
             k \in {x \in DOMAIN table : table[x].peer_address = peer}}
    ELSE take_or_create_connection(table, is_draining, peer, header)

PollResult(dg, how, key, recv_ok, stored) ==
    [some |-> TRUE, op |-> "poll", before |-> connections,
     ty |-> dg.ty, peer |-> dg.peer, datagram |-> dg,
     how |-> how, key |-> key, recv_ok |-> recv_ok, stored |-> stored]

(* poll when recv_from returned a datagram: the datagram is dropped, or    *)
(* handed to a connection, which is stored again under its key unless      *)
(* quic.recv failed (poll returns at once, is_closed is not asked) or the  *)
(* connection is closed afterwards.                                        *)
PollDatagram(dg) ==
    /\ LET header == Header_from_slice(dg)
           Dropped(how) ==
               /\ last_call' = PollResult(dg, how, None, FALSE, FALSE)
               /\ UNCHANGED connections
       IN IF ~ header.ok THEN Dropped("wrong header")
          ELSE IF header.value.ty = "VersionNegotiation"
          THEN Dropped("version negotiation")
          ELSE \E found \in lookup(connections, draining, dg.peer, header.value) :
               IF ~ found.some THEN Dropped("unknown connection")
               ELSE \E recv_ok \in BOOLEAN, is_closed \in BOOLEAN :
                    LET stored == recv_ok /\ ~ is_closed
                    IN /\ recv_ok \/ ~ is_closed
                       /\ connections' =
                             IF stored
                             THEN Insert(found.value.table, found.value.scid,
                                         found.value.connection)
                             ELSE found.value.table
                       /\ last_call' = PollResult(dg, found.value.how,
                                                  Some(found.value.scid), recv_ok,
                                                  stored)
    /\ UNCHANGED <<now, draining, drain_start, drain_keys>>

(* poll when recv_from returned WouldBlock or TimedOut: handle_timeouts    *)
(* runs the timers and removes the connections that are closed afterwards. *)
PollIdle ==
    /\ \E closed \in SUBSET DOMAIN connections :
          connections' = [k \in DOMAIN connections \ closed |-> connections[k]]
    /\ last_call' = [some |-> TRUE, op |-> "handle_timeouts", before |-> connections]
    /\ UNCHANGED <<now, draining, drain_start, drain_keys>>

(* start_draining without its early return: every call records the time. *)
StartDraining_restarting ==
    /\ draining' = TRUE
    /\ drain_start' = Some(now)
    /\ drain_keys' = IF draining THEN drain_keys ELSE DOMAIN connections
    /\ last_call' = [some |-> TRUE, op |-> "start_draining", before |-> connections]
    /\ UNCHANGED <<now, connections>>

StartDraining ==
    /\ IF draining
       THEN UNCHANGED <<draining, drain_start, drain_keys>>
       ELSE /\ draining' = TRUE
            /\ drain_start' = Some(now)
            /\ drain_keys' = DOMAIN connections
    /\ last_call' = [some |-> TRUE, op |-> "start_draining", before |-> connections]
    /\ UNCHANGED <<now, connections>>

(* What drain_complete returned, the connections it closed with the reason *)
(* "draining" and the table it was called on.                              *)
DrainResult(returned, closed) ==
    [some |-> TRUE, op |-> "drain_complete", before |-> connections,
     returned |-> returned, closed |-> closed]

(* drain_complete; close_all closes every connection and clears the table, *)
(* unless the socket cannot be cloned: then it returns at once.            *)
DrainComplete ==
    /\ IF ~ draining
       THEN /\ last_call' = DrainResult(DOMAIN connections = {}, {})
            /\ UNCHANGED connections
       ELSE IF DOMAIN connections = {}
       THEN /\ last_call' = DrainResult(TRUE, {})
            /\ UNCHANGED connections
       ELSE IF drain_start.some /\ now - drain_start.value >= DRAIN_TIMEOUT
       THEN \E cloned \in BOOLEAN :
               /\ connections' = IF cloned THEN <<>> ELSE connections
               /\ last_call' = DrainResult(TRUE, IF cloned THEN DOMAIN connections
                                                  ELSE {})
       ELSE /\ last_call' = DrainResult(FALSE, {})
            /\ UNCHANGED connections
    /\ UNCHANGED <<now, draining, drain_start, drain_keys>>

ClockTick ==
    /\ now < MaxClock
    /\ now' = now + 1
    /\ last_call' = None
    /\ UNCHANGED <<connections, draining, drain_start, drain_keys>>

InitConn ==
    /\ now = 0
    /\ connections = <<>>
    /\ draining = FALSE
    /\ drain_start = None
    /\ drain_keys = {}
    /\ last_call = None
    /\ upstream_pools = <<>>
    /\ calls = <<>>
    /\ last_pick = None
    /\ PoolUnused
    /\ BridgeUnused
    /\ ReqUnused

NextConn ==
    \/ \E dg \in Datagrams : PollDatagram(dg) /\ UNCHANGED OutsideConn
    \/ PollIdle /\ UNCHANGED OutsideConn
    \/ StartDraining /\ UNCHANGED OutsideConn
    \/ DrainComplete /\ UNCHANGED OutsideConn
    \/ ClockTick /\ UNCHANGED OutsideConn

SpecConn == InitConn /\ [][NextConn]_vars

(* SpecDrain: the listener with the datagrams of one peer, enough to open  *)
(* connections and to keep them busy while it drains.                      *)
DrainDatagrams == {dg \in Datagrams : dg.peer = "p1" /\ dg.ty \in {"Initial", "Short"}}

NextDrain ==
    \/ \E dg \in DrainDatagrams : PollDatagram(dg) /\ UNCHANGED OutsideConn
    \/ PollIdle /\ UNCHANGED OutsideConn
    \/ StartDraining /\ UNCHANGED OutsideConn
    \/ DrainComplete /\ UNCHANGED OutsideConn
    \/ ClockTick /\ UNCHANGED OutsideConn

SpecDrain == InitConn /\ [][NextDrain]_vars

-----------------------------------------------------------------------------
(* Requests to the upstream of a single backend, "b", one after the other, *)
(* with the health checks of that backend. The history kept: the number of *)
(* requests in a row that ended in a timeout or a transport error (raw),   *)
(* the same number counted from the last successful health check (streak), *)
(* and whether a health check succeeded while the request was in flight.   *)

TripRequests == MaxRequests + 1
TripStreamIds == {4 * k : k \in 0..(TripRequests - 1)}
TripHeaderLists ==
    {<<H(B_method, B_GET), H(B_path, B_path_c), H(B_authority, B_b_test)>>,
     <<H(B_path, B_path_ax)>>}

NoStreak == [streak |-> 0, raw |-> 0, tainted |-> FALSE]

InitTrip ==
    /\ now = 0
    /\ \E hc \in HealthChecks :
          /\ hc.cooldown_ms = 0
          /\ hc.success_threshold = 1
          /\ upstream_pools = ReqPools(hc)
    /\ calls = NoStreak
    /\ last_pick = None
    /\ stream_state = [s \in TripStreamIds |-> "idle"]
    /\ streams = [s \in TripStreamIds |-> None]
    /\ metrics = NoMetrics
    /\ dispatch = None
    /\ written = <<>>
    /\ last_finish = None
    /\ probes = 0
    /\ PoolUnused
    /\ BridgeUnused
    /\ ConnUnused

TripHeaders ==
    /\ \E s \in TripStreamIds, list \in TripHeaderLists :
          HeadersEventUpTo(TripRequests, s, list)
    /\ UNCHANGED calls

TripFinished ==
    /\ \E s \in TripStreamIds : FinishedEvent(s)
    /\ calls' = [calls EXCEPT !.tainted = FALSE]

TripForwardReturn ==
    /\ ForwardReturn
    /\ LET failed == last_finish'.outcome \in {"Timeout", "Transport"}
       IN calls' = [streak |-> IF failed /\ ~ calls.tainted THEN calls.streak + 1 ELSE 0,
                    raw |-> IF failed THEN calls.raw + 1 ELSE 0,
                    tainted |-> FALSE]

TripHealthProbe ==
    \E healthy \in BOOLEAN :
       /\ HealthProbe("b", 0, healthy)
       /\ calls' = IF healthy
                   THEN [streak |-> 0, raw |-> calls.raw, tainted |-> dispatch.some]
                   ELSE calls

NextTrip ==
    \/ TripHeaders /\ UNCHANGED <<last_pick, poolvars, bridgevars, connvars>>
    \/ TripFinished /\ UNCHANGED <<last_pick, poolvars, bridgevars, connvars>>
    \/ TripForwardReturn /\ UNCHANGED <<last_pick, poolvars, bridgevars, connvars>>
    \/ TripHealthProbe /\ UNCHANGED <<poolvars, bridgevars, connvars>>

SpecTrip == InitTrip /\ [][NextTrip]_vars

-----------------------------------------------------------------------------
(* One backend under mark_success, mark_failure and clock advances, with   *)
(* the last call kept: what it was, the signal it returned, the health     *)
(* before it, the signal emitted before it, and the number of calls in a   *)
(* row up to it that were mark_success on the unhealthy backend at         *)
(* now >= until.                                                           *)

NoSignals ==
    [called |-> FALSE, op |-> "", transition |-> None, was_healthy |-> TRUE,
     succ_run |-> 0, prev_signal |-> None]

InitSignals ==
    /\ now = 0
    /\ \E hc \in HealthChecks : upstream_pools = OnePool(1, hc, RoundRobin_new)
    /\ calls = NoSignals
    /\ last_pick = None
    /\ PoolUnused
    /\ BridgeUnused
    /\ ReqUnused
    /\ ConnUnused

SignalMarkSuccess ==
    /\ MarkSuccess("u", 0)
    /\ LET b == upstream_pools["u"].pool[0]
           counted == ~ is_healthy(b) /\ now >= b.health_state.until
       IN calls' = [called |-> TRUE, op |-> "mark_success",
                    transition |-> mark_success(upstream_pools["u"].pool, 0, now).transition,
                    was_healthy |-> is_healthy(b),
                    succ_run |-> IF counted THEN Min2(calls.succ_run + 1, MaxThreshold)
                                 ELSE 0,
                    prev_signal |-> IF calls.transition.some THEN calls.transition
                                    ELSE calls.prev_signal]

SignalMarkFailure ==
    /\ MarkFailure("u", 0)
    /\ LET b == upstream_pools["u"].pool[0]
       IN calls' = [called |-> TRUE, op |-> "mark_failure",
                    transition |-> mark_failure(upstream_pools["u"].pool, 0, now).transition,
                    was_healthy |-> is_healthy(b),
                    succ_run |-> 0,
                    prev_signal |-> IF calls.transition.some THEN calls.transition
                                    ELSE calls.prev_signal]

NextSignals ==
    \/ SignalMarkSuccess /\ UNCHANGED OutsideLB
    \/ SignalMarkFailure /\ UNCHANGED OutsideLB
    \/ Tick /\ UNCHANGED OutsideLB

SpecSignals == InitSignals /\ [][NextSignals]_vars

-----------------------------------------------------------------------------
(* SpecSweep: the timers of the connections in the table. A connection     *)
(* holds the time of its last datagram (its idle timer runs from there),   *)
(* last_activity, whether quiche has closed it, and the parity of the      *)
(* datagrams it took. recv_from blocks for at most 50 ms: poll takes a     *)
(* datagram when one is there, and calls handle_timeouts when none came.   *)

MAX_IDLE_TIMEOUT == 5   \* quic_config.set_max_idle_timeout(5000), in clock ticks of one second

TimedConnection(scid, peer, t) ==
    [scid |-> scid, peer_address |-> peer, received |-> t, last_activity |-> t,
     closed |-> FALSE, parity |-> 0]

(* The idle timer of connection c has run out at time t. *)
IdleExpired(c, t) == t >= c.received + MAX_IDLE_TIMEOUT

(* quic.timeout(): no timer on a closed connection, else the time left     *)
(* until the idle timer fires, zero once it has run out.                   *)
quic_timeout(c, t) ==
    IF c.closed THEN None
    ELSE Some(IF IdleExpired(c, t) THEN 0 ELSE c.received + MAX_IDLE_TIMEOUT - t)

(* quic.on_timeout(): the connection is closed if its idle timer ran out. *)
on_timeout(c, t) == [c EXCEPT !.closed = c.closed \/ IdleExpired(c, t)]

(* The body of the loop of handle_timeouts for one connection at time t. *)
sweep_one(c, t) ==
    LET timeout == quic_timeout(c, t) IN
    IF ~ timeout.some THEN c
    ELSE IF t - c.last_activity >= timeout.value
    THEN [on_timeout(c, t) EXCEPT !.last_activity = t]
    ELSE c

(* handle_timeouts: nothing is done on an empty table or when the socket   *)
(* cannot be cloned; else every connection is swept and those closed       *)
(* afterwards are removed.                                                  *)
handle_timeouts(table, t, cloned) ==
    IF DOMAIN table = {} \/ ~ cloned THEN table
    ELSE [k \in {x \in DOMAIN table : ~ sweep_one(table[x], t).closed} |->
             sweep_one(table[k], t)]

(* poll: an Initial datagram of a new peer is accepted. *)
SweepAccept(scid, peer) ==
    /\ scid \notin DOMAIN connections
    /\ \A k \in DOMAIN connections : connections[k].peer_address # peer
    /\ connections' = Insert(connections, scid, TimedConnection(scid, peer, now))
    /\ last_call' = [some |-> TRUE, op |-> "poll", before |-> connections]
    /\ UNCHANGED <<now, draining, drain_start, drain_keys>>

(* poll: a datagram for connection k is taken; the idle timer starts again. *)
SweepDatagram(k) ==
    /\ k \in DOMAIN connections
    /\ connections' = [connections EXCEPT ![k].received = now,
                                          ![k].last_activity = now,
                                          ![k].parity = 1 - @]
    /\ last_call' = [some |-> TRUE, op |-> "poll", before |-> connections]
    /\ UNCHANGED <<now, draining, drain_start, drain_keys>>

(* poll: recv_from returned WouldBlock or TimedOut. *)
SweepIdle ==
    /\ \E cloned \in BOOLEAN :
          /\ connections' = handle_timeouts(connections, now, cloned)
          /\ last_call' = [some |-> TRUE, op |-> "handle_timeouts",
                           before |-> connections, cloned |-> cloned]
    /\ UNCHANGED <<now, draining, drain_start, drain_keys>>

InitSweep ==
    /\ connections = <<>>
    /\ draining = FALSE
    /\ drain_start = None
    /\ drain_keys = {}
    /\ last_call = None
    /\ LBUnused
    /\ PoolUnused
    /\ BridgeUnused
    /\ ReqUnused

(* One call of poll. *)
SweepPoll ==
    \/ \E scid \in Scids, peer \in Peers : SweepAccept(scid, peer) /\ UNCHANGED OutsideConn
    \/ \E k \in Scids : SweepDatagram(k) /\ UNCHANGED OutsideConn
    \/ SweepIdle /\ UNCHANGED OutsideConn

NextSweep ==
    \/ SweepPoll
    \/ ClockTick /\ UNCHANGED OutsideConn

SpecSweep == InitSweep /\ [][NextSweep]_vars

(* main calls poll for ever; whether a datagram is there is up to the      *)
(* clients.                                                                *)
SpecSweepFair == SpecSweep /\ WF_vars(SweepPoll)

-----------------------------------------------------------------------------
(* SpecRoute: find_upstream_for_request as the loop it is, over the        *)
(* upstreams in the order the HashMap yields them, on the route tables the *)
(* validator lets through (every route has a host or a path_prefix, and a  *)
(* path_prefix starts with "/"). `calls` holds the table and the last call. *)

B_c_test == <<99, 46, 116, 101, 115, 116>>                          \* "c.test"

RouteNames == {"a", "b", "c"}

Routes ==
    {r \in [host : {None, Some(B_b_test)},
            path_prefix : {None, Some(B_slash), Some(B_path_a), Some(B_path_ax)}] :
        r.host.some \/ r.path_prefix.some}

RouteTables == {[n \in RouteNames |-> [route |-> t[n]]] : t \in [RouteNames -> Routes]}

RoutePaths == {B_path_ax, B_path_a, B_path_c, <<>>}
RouteHosts == {None, Some(B_b_test), Some(B_c_test)}

(* The orders in which the upstreams can be iterated. *)
IterationOrders(names) ==
    {o \in [1..Cardinality(names) -> names] : Range(o) = names}

(* The loop keeping the first match it meets, whatever its length. *)
RECURSIVE route_loop_first_match(_, _, _, _, _)
route_loop_first_match(upstreams, order, path, host, best_match) ==
    IF order = <<>> THEN best_match
    ELSE LET route == upstreams[Head(order)].route
             has_host_match ==
                 IF route.host.some THEN host.some /\ route.host.value = host.value
                 ELSE TRUE
         IN IF route.path_prefix.some /\ ~ starts_with(path, route.path_prefix.value)
            THEN route_loop_first_match(upstreams, Tail(order), path, host, best_match)
            ELSE LET path_match_len ==
                         IF route.path_prefix.some THEN Len(route.path_prefix.value) ELSE 0
                 IN IF has_host_match /\ ~ best_match.some
                    THEN route_loop_first_match(upstreams, Tail(order), path, host,
                            Some([name |-> Head(order), path_match_len |-> path_match_len]))
                    ELSE route_loop_first_match(upstreams, Tail(order), path, host,
                                                best_match)

(* The loop of find_upstream_for_request over the upstreams left in        *)
(* `order`, best_match being the best match so far.                        *)
RECURSIVE route_loop(_, _, _, _, _)
route_loop(upstreams, order, path, host, best_match) ==
    IF order = <<>> THEN best_match
    ELSE LET route == upstreams[Head(order)].route
             has_host_match ==
                 IF route.host.some THEN host.some /\ route.host.value = host.value
                 ELSE TRUE
         IN IF route.path_prefix.some /\ ~ starts_with(path, route.path_prefix.value)
            THEN route_loop(upstreams, Tail(order), path, host, best_match)
            ELSE LET path_match_len ==
                         IF route.path_prefix.some THEN Len(route.path_prefix.value) ELSE 0
                 IN IF has_host_match
                       /\ (~ best_match.some
                              \/ path_match_len > best_match.value.path_match_len)
                    THEN route_loop(upstreams, Tail(order), path, host,
                            Some([name |-> Head(order), path_match_len |-> path_match_len]))
                    ELSE route_loop(upstreams, Tail(order), path, host, best_match)

(* best_match.map(|(name, _)| name) *)
find_upstream_in_order(upstreams, order, path, host) ==
    LET best_match == route_loop(upstreams, order, path, host, None)
    IN IF best_match.some THEN Some(best_match.value.name) ELSE None

NoResolution(upstreams) ==
    [upstreams |-> upstreams, called |-> FALSE, path |-> <<>>, host |-> None,
     order |-> <<>>, result |-> None]

InitRoute ==
    /\ now = 0
    /\ upstream_pools = <<>>
    /\ \E upstreams \in RouteTables : calls = NoResolution(upstreams)
    /\ last_pick = None
    /\ PoolUnused
    /\ BridgeUnused
    /\ ReqUnused
    /\ ConnUnused

Resolve(path, host, order) ==
    /\ calls' = [upstreams |-> calls.upstreams, called |-> TRUE, path |-> path,
                 host |-> host, order |-> order,
                 result |-> find_upstream_in_order(calls.upstreams, order, path, host)]
    /\ UNCHANGED <<now, upstream_pools, last_pick>>

NextRoute ==
    \E path \in RoutePaths, host \in RouteHosts, order \in IterationOrders(RouteNames) :
       Resolve(path, host, order) /\ UNCHANGED OutsideLB

SpecRoute == InitRoute /\ [][NextRoute]_vars

-----------------------------------------------------------------------------
(* SpecLoop: the thread of main's `loop { spooky.poll() }`. poll reads one *)
(* datagram and calls handle_h3, which takes the HTTP/3 events one by one  *)
(* until Done; a Finished event calls handle_request_finish, which blocks  *)
(* in forward_request (run_blocking) until the backend has answered or the *)
(* timeout has fired. `calls` holds the position of the thread,            *)
(*   pc           "recv" in recv_from, "h3" in the event loop of handle_h3, *)
(*   outstanding  the upstream requests sent and not returned,             *)
(*   during       the datagrams and events taken since the dispatch began, *)
(*   returned     forward_request has just returned,                       *)
(*   stream_id    the stream of the last dispatch,                         *)
(*   seen         for each stream, whether a Headers event came and how    *)
(*                many times handle_request_finish was called for it.      *)
(* The health-check tasks run beside the thread.                           *)

(* The header lists of SpecReq and a request with no :method whose path no *)
(* upstream serves.                                                        *)
LoopHeaderLists == HeaderLists \cup {<<H(B_path, B_path_c)>>}

InLoop(pc) == [pc |-> pc, outstanding |-> 0, during |-> 0, returned |-> FALSE,
               stream_id |-> 0,
               seen |-> [s \in StreamIds |-> [headers |-> FALSE, dispatched |-> 0]]]

InitLoop ==
    /\ now = 0
    /\ \E hc \in HealthChecks :
          /\ hc.cooldown_ms = 0
          /\ hc.success_threshold = 1
          /\ hc.failure_threshold = 1
          /\ upstream_pools = ReqPools(hc)
    /\ calls = InLoop("recv")
    /\ last_pick = None
    /\ stream_state = [s \in StreamIds |-> "idle"]
    /\ streams = [s \in StreamIds |-> None]
    /\ metrics = NoMetrics
    /\ dispatch = None
    /\ written = <<>>
    /\ last_finish = None
    /\ probes = 0
    /\ PoolUnused
    /\ BridgeUnused
    /\ ConnUnused

(* The thread goes on to its next datagram or event: one more step since   *)
(* the dispatch began, if one is under way.                                *)
Stepped(pc) ==
    calls' = [calls EXCEPT !.pc = pc,
                           !.during = IF dispatch.some THEN @ + 1 ELSE 0,
                           !.returned = FALSE]

(* poll: recv_from gave a datagram, the connection took it and handle_h3   *)
(* is called.                                                              *)
LoopDatagram ==
    /\ calls.pc = "recv"
    /\ Stepped("h3")
    /\ last_finish' = None
    /\ written' = <<>>
    /\ UNCHANGED <<now, upstream_pools, stream_state, streams, metrics, dispatch, probes>>

(* h3.poll gave Err(Done): handle_h3 and poll return. *)
LoopDone ==
    /\ calls.pc = "h3"
    /\ dispatch = None
    /\ calls' = [calls EXCEPT !.pc = "recv", !.returned = FALSE]
    /\ last_finish' = None
    /\ written' = <<>>
    /\ UNCHANGED <<now, upstream_pools, stream_state, streams, metrics, dispatch, probes>>

LoopHeaders(stream_id, list) ==
    /\ calls.pc = "h3"
    /\ HeadersEvent(stream_id, list)
    /\ calls' = [calls EXCEPT !.during = IF dispatch.some THEN @ + 1 ELSE 0,
                              !.returned = FALSE,
                              !.seen[stream_id].headers = TRUE]

LoopData(stream_id, chunk) ==
    /\ calls.pc = "h3"
    /\ DataEvent(stream_id, chunk)
    /\ Stepped("h3")

LoopReset(stream_id) ==
    /\ calls.pc = "h3"
    /\ ResetEvent(stream_id)
    /\ Stepped("h3")

(* Event::Finished: when a backend was picked the request is sent and the  *)
(* thread waits in forward_request.                                        *)
LoopFinished(stream_id) ==
    /\ calls.pc = "h3"
    /\ FinishedEvent(stream_id)
    /\ LET seen == IF streams[stream_id].some
                   THEN [calls.seen EXCEPT ![stream_id].dispatched = @ + 1]
                   ELSE calls.seen
       IN calls' = IF dispatch'.some
                   THEN [pc |-> "h3", outstanding |-> calls.outstanding + 1, during |-> 0,
                         returned |-> FALSE, stream_id |-> stream_id, seen |-> seen]
                   ELSE [calls EXCEPT !.during = IF dispatch.some THEN @ + 1 ELSE 0,
                                      !.returned = FALSE,
                                      !.seen = seen]

LoopForwardReturn ==
    /\ ForwardReturn
    /\ calls' = [calls EXCEPT !.outstanding = @ - 1, !.returned = TRUE]

(* A health-check task marks a backend; the thread is where it was. *)
LoopHealthProbe(n, index, healthy) ==
    /\ HealthProbe(n, index, healthy)
    /\ calls' = [calls EXCEPT !.returned = FALSE]

NextLoop ==
    \/ LoopDatagram /\ UNCHANGED <<last_pick, poolvars, bridgevars, connvars>>
    \/ LoopDone /\ UNCHANGED <<last_pick, poolvars, bridgevars, connvars>>
    \/ \E s \in StreamIds, list \in LoopHeaderLists :
          LoopHeaders(s, list) /\ UNCHANGED <<last_pick, poolvars, bridgevars, connvars>>
    \/ \E s \in StreamIds :
          LoopData(s, <<120>>) /\ UNCHANGED <<last_pick, poolvars, bridgevars, connvars>>
    \/ \E s \in StreamIds :
          LoopReset(s) /\ UNCHANGED <<last_pick, poolvars, bridgevars, connvars>>
    \/ \E s \in StreamIds :
          LoopFinished(s) /\ UNCHANGED <<last_pick, poolvars, bridgevars, connvars>>
    \/ LoopForwardReturn /\ UNCHANGED <<last_pick, poolvars, bridgevars, connvars>>
    \/ \E n \in DOMAIN ConfigUpstreams, healthy \in BOOLEAN :
          \E i \in 0..(ConfigUpstreams[n].backends - 1) :
             LoopHealthProbe(n, i, healthy)
                /\ UNCHANGED <<last_pick, poolvars, bridgevars, connvars>>

SpecLoop == InitLoop /\ [][NextLoop]_vars

-----------------------------------------------------------------------------
(* SpecRing: a consistent-hash pool of three or more backends whose        *)
(* backends fail and recover. `calls` remembers the last mark_failure that *)
(* took a backend out of the healthy set: the index and the pool before.   *)

RingBackends == NumBackends + 1

(* The keys of SpecLB and "POST", which hashes between the nodes of the    *)
(* second and of the third address.                                        *)
RingKeys == Keys \cup {<<80, 79, 83, 84>>}

NoRemoval == [some |-> FALSE, removed |-> 0, before |-> <<>>]

InitRing ==
    /\ now = 0
    /\ \E hc \in HealthChecks, r \in {0, MaxReplicas} :
          /\ hc.success_threshold = 1
          /\ hc.cooldown_ms = 0
          /\ upstream_pools = OnePool(RingBackends, hc, ConsistentHash_new(r))
    /\ calls = NoRemoval
    /\ last_pick = None
    /\ PoolUnused
    /\ BridgeUnused
    /\ ReqUnused
    /\ ConnUnused

RingMarkFailure(index) ==
    /\ MarkFailure("u", index)
    /\ calls' = [some |-> /\ is_healthy(upstream_pools["u"].pool[index])
                          /\ ~ is_healthy(upstream_pools'["u"].pool[index]),
                 removed |-> index,
                 before |-> upstream_pools["u"].pool]

RingMarkSuccess(index) ==
    /\ MarkSuccess("u", index)
    /\ calls' = NoRemoval

RingPick(key) ==
    /\ \E o \in UpstreamPool_pick(upstream_pools["u"], key) :
          /\ upstream_pools' = [upstream_pools EXCEPT !["u"] = o.up]
          /\ last_pick' = [some |-> TRUE, upstream |-> "u", key |-> key,
                           result |-> o.result]
    /\ UNCHANGED <<now, calls>>

NextRing ==
    \/ \E i \in 0..(RingBackends - 1) : RingMarkFailure(i) /\ UNCHANGED OutsideLB
    \/ \E i \in 0..(RingBackends - 1) : RingMarkSuccess(i) /\ UNCHANGED OutsideLB
    \/ \E key \in RingKeys : RingPick(key) /\ UNCHANGED OutsideLB

SpecRing == InitRing /\ [][NextRing]_vars

-----------------------------------------------------------------------------
(* A round-robin balancer from its creation on: the picks made so far are  *)
(* kept, with whether the healthy set has been the same since the first.   *)

NoPicks == [picks |-> <<>>, stable |-> TRUE]

InitRoundRobin ==
    /\ now = 0
    /\ \E hc \in HealthChecks :
          /\ hc.success_threshold = 1
          /\ hc.cooldown_ms = 0
          /\ upstream_pools = OnePool(NumBackends, hc, RoundRobin_new)
    /\ calls = NoPicks
    /\ last_pick = None
    /\ PoolUnused
    /\ BridgeUnused
    /\ ReqUnused
    /\ ConnUnused

(* A mark between two picks: the history notes a change of the healthy set. *)
MarkBetweenPicks ==
    /\ \E i \in 0..(NumBackends - 1) : MarkSuccess("u", i) \/ MarkFailure("u", i)
    /\ calls' = [calls EXCEPT !.stable =
                    /\ @
                    /\ \/ calls.picks = <<>>
                       \/ healthy_indices(upstream_pools'["u"].pool)
                             = healthy_indices(upstream_pools["u"].pool)]

RoundRobinPick ==
    /\ Len(calls.picks) < MaxPicks
    /\ \E key \in Keys :
       \E o \in UpstreamPool_pick(upstream_pools["u"], key) :
          /\ upstream_pools' = [upstream_pools EXCEPT !["u"] = o.up]
          /\ last_pick' = [some |-> TRUE, upstream |-> "u", key |-> key,
                           result |-> o.result]
          /\ calls' = [calls EXCEPT !.picks = Append(@, o.result)]
    /\ UNCHANGED now

NextRoundRobin ==
    \/ MarkBetweenPicks /\ UNCHANGED OutsideLB
    \/ RoundRobinPick /\ UNCHANGED OutsideLB

SpecRoundRobin == InitRoundRobin /\ [][NextRoundRobin]_vars

-----------------------------------------------------------------------------
(* SpecLock: the listener thread and the health-check tasks on the         *)
(* Mutex<UpstreamPool> of one upstream. Task 0 is the listener, task i + 1 *)
(* the health-check task of backend i. Each task is at a position of its   *)
(* loop; locking, the operation made under the guard, and the waits on the *)
(* network or on the timer are steps of their own. `calls` holds the       *)
(* positions, the holder of the mutex, the index the listener picked and   *)
(* the last operation made on the pool with whether its task held the      *)
(* mutex.                                                                  *)

LockTasks == 0..HealthBackends

(* The positions at which a task waits on the network or on a timer, and   *)
(* those at which it waits for the mutex.                                  *)
IoPositions == {"poll", "forward", "sleep", "send"}
LockPositions == {"lock_len", "lock_pick", "lock_address", "lock_mark"}

(* handle_request_finish from the route on: the position after pc. *)
listener_loop(pc) ==
    CASE pc = "poll" -> "lock_len"
      [] pc = "lock_len" -> "len"
      [] pc = "len" -> "lock_pick"
      [] pc = "lock_pick" -> "pick"
      [] pc = "pick" -> "lock_address"
      [] pc = "lock_address" -> "address"
      [] pc = "address" -> "forward"
      [] pc = "forward" -> "lock_mark"
      [] pc = "lock_mark" -> "mark"
      [] pc = "mark" -> "poll"

(* The loop of a health-check task taking the mutex before the probe. *)
health_loop_locking_before_send(pc) ==
    CASE pc = "sleep" -> "lock_mark"
      [] pc = "lock_mark" -> "send"
      [] pc = "send" -> "mark"
      [] pc = "mark" -> "sleep"

(* The loop of a health-check task: the position after pc. *)
health_loop(pc) ==
    CASE pc = "sleep" -> "send"
      [] pc = "send" -> "lock_mark"
      [] pc = "lock_mark" -> "mark"
      [] pc = "mark" -> "sleep"

task_loop(t, pc) == IF t = 0 THEN listener_loop(pc) ELSE health_loop(pc)

InitLock ==
    /\ now = 0
    /\ upstream_pools =
          OnePool(HealthBackends,
                  [failure_threshold |-> 1, success_threshold |-> 1, cooldown_ms |-> 0],
                  RoundRobin_new)
    /\ calls = [pc |-> [t \in LockTasks |-> IF t = 0 THEN "poll" ELSE "sleep"],
                holder |-> None, index |-> 0, access |-> None]
    /\ last_pick = None
    /\ PoolUnused
    /\ BridgeUnused
    /\ ReqUnused
    /\ ConnUnused

(* The guard of task t is dropped, if it has one. *)
Unlocked(t) == IF calls.holder = Some(t) THEN None ELSE calls.holder

Accessed(t, operation) ==
    Some([task |-> t, op |-> operation, held |-> calls.holder = Some(t)])

(* upstream_pool.lock(): the task goes on when the mutex is free. *)
Lock(t) ==
    /\ calls.pc[t] \in LockPositions
    /\ calls.holder = None
    /\ calls' = [calls EXCEPT !.pc[t] = task_loop(t, @), !.holder = Some(t)]
    /\ UNCHANGED <<now, upstream_pools, last_pick>>

(* A wait on the network or on the timer ends. *)
IoDone(t) ==
    /\ calls.pc[t] \in IoPositions
    /\ calls' = [calls EXCEPT !.pc[t] = task_loop(t, @)]
    /\ UNCHANGED <<now, upstream_pools, last_pick>>

(* pool.pool.len() *)
ListenerLen ==
    /\ calls.pc[0] = "len"
    /\ calls' = [calls EXCEPT !.pc[0] = IF len(upstream_pools["u"].pool) = 0 THEN "poll"
                                        ELSE listener_loop(@),
                              !.holder = Unlocked(0),
                              !.access = Accessed(0, "len")]
    /\ UNCHANGED <<now, upstream_pools, last_pick>>

(* pool.pick(&key) *)
ListenerPick ==
    /\ calls.pc[0] = "pick"
    /\ \E o \in UpstreamPool_pick(upstream_pools["u"], <<>>) :
          /\ upstream_pools' = [upstream_pools EXCEPT !["u"] = o.up]
          /\ last_pick' = [some |-> TRUE, upstream |-> "u", key |-> <<>>,
                           result |-> o.result]
          /\ calls' = [calls EXCEPT !.pc[0] = IF o.result.some THEN listener_loop(@)
                                              ELSE "poll",
                                    !.index = IF o.result.some THEN o.result.value ELSE @,
                                    !.holder = Unlocked(0),
                                    !.access = Accessed(0, "pick")]
    /\ UNCHANGED now

(* pool.pool.address(backend_index) *)
ListenerAddress ==
    /\ calls.pc[0] = "address"
    /\ calls' = [calls EXCEPT !.pc[0] =
                                  IF address(upstream_pools["u"].pool, calls.index).some
                                  THEN listener_loop(@) ELSE "poll",
                              !.holder = Unlocked(0),
                              !.access = Accessed(0, "address")]
    /\ UNCHANGED <<now, upstream_pools, last_pick>>

(* mark_success or mark_failure with the outcome of the request or of the  *)
(* probe, by the listener on the backend it picked, by a health-check task *)
(* on its own backend.                                                     *)
TaskMark(t, healthy) ==
    /\ calls.pc[t] = "mark"
    /\ LET index == IF t = 0 THEN calls.index ELSE t - 1
       IN /\ upstream_pools' =
                [upstream_pools EXCEPT !["u"].pool =
                    IF healthy THEN mark_success(@, index, now).pool
                    ELSE mark_failure(@, index, now).pool]
          /\ calls' = [calls EXCEPT !.pc[t] = task_loop(t, @),
                                    !.holder = Unlocked(t),
                                    !.access = Accessed(t, IF healthy THEN "mark_success"
                                                           ELSE "mark_failure")]
    /\ last_pick' = None
    /\ UNCHANGED now

NextLock ==
    \/ \E t \in LockTasks : Lock(t) /\ UNCHANGED OutsideLB
    \/ \E t \in LockTasks : IoDone(t) /\ UNCHANGED OutsideLB
    \/ ListenerLen /\ UNCHANGED OutsideLB
    \/ ListenerPick /\ UNCHANGED OutsideLB
    \/ ListenerAddress /\ UNCHANGED OutsideLB
    \/ \E t \in LockTasks, healthy \in BOOLEAN : TaskMark(t, healthy) /\ UNCHANGED OutsideLB

SpecLock == InitLock /\ [][NextLock]_vars

-----------------------------------------------------------------------------
(* SpecProbe: the health-check task of one backend, with the listener      *)
(* sending requests to that backend. The task sleeps, sends its probe and  *)
(* records the outcome; the sleep lets the clock advance. `calls` holds    *)
(* the position of the task, the result of the probe in hand, whether the  *)
(* listener has a request in flight, the last mark of the task, and        *)
(* `good`: from the moment it is set every probe returns a 2xx response in *)
(* time.                                                                   *)

ProbeResults ==
    [kind : {"response"}, status : {199, 200, 299, 300, 500}]
       \cup {[kind |-> "error", status |-> 0], [kind |-> "timeout", status |-> 0]}

(* Any response in time counted as healthy, whatever its status. *)
probe_healthy_any_status(result) == result.kind = "response"

(* Ok(Ok(response)) => response.status().is_success(), _ => false *)
probe_healthy(result) ==
    result.kind = "response" /\ result.status >= 200 /\ result.status <= 299

(* A failure can be recorded while its cooldown ends within the time the   *)
(* clock covers.                                                           *)
FailureInTime ==
    now + upstream_pools["u"].pool[0].backend.health_check.cooldown_ms <= MaxTime

InitProbe ==
    /\ now = 0
    /\ \E hc \in HealthChecks : upstream_pools = OnePool(1, hc, Random_new)
    /\ calls = [pc |-> "sleep", result |-> [kind |-> "error", status |-> 0],
                inflight |-> FALSE, good |-> FALSE, last |-> None]
    /\ last_pick = None
    /\ PoolUnused
    /\ BridgeUnused
    /\ ReqUnused
    /\ ConnUnused

(* tokio::time::sleep(interval).await *)
ProbeSleep ==
    /\ calls.pc = "sleep"
    /\ now' = Min2(now + 1, MaxTime)
    /\ calls' = [calls EXCEPT !.pc = "send"]
    /\ UNCHANGED <<upstream_pools, last_pick>>

(* tokio::time::timeout(timeout, h2_pool.send(&address, request)).await *)
ProbeSend ==
    /\ calls.pc = "send"
    /\ \E result \in ProbeResults :
          /\ calls.good => probe_healthy(result)
          /\ ~ probe_healthy(result) => FailureInTime
          /\ calls' = [calls EXCEPT !.pc = "mark", !.result = result]
    /\ UNCHANGED <<now, upstream_pools, last_pick>>

(* The mark made with the result of the probe. *)
ProbeMark ==
    /\ calls.pc = "mark"
    /\ LET healthy == probe_healthy(calls.result)
       IN /\ upstream_pools' =
                [upstream_pools EXCEPT !["u"].pool =
                    IF healthy THEN mark_success(@, 0, now).pool
                    ELSE mark_failure(@, 0, now).pool]
          /\ calls' = [calls EXCEPT
                         !.pc = "sleep",
                         !.last = Some([result |-> calls.result,
                                        op |-> IF healthy THEN "mark_success"
                                               ELSE "mark_failure",
                                        was_healthy |->
                                            is_healthy(upstream_pools["u"].pool[0])])]
    /\ UNCHANGED <<now, last_pick>>

(* From now on the probes succeed. *)
ProbesTurnGood ==
    /\ ~ calls.good
    /\ calls' = [calls EXCEPT !.good = TRUE]
    /\ UNCHANGED <<now, upstream_pools, last_pick>>

(* The listener picks the backend for a request. *)
ProbeListenerPick ==
    /\ ~ calls.inflight
    /\ \E o \in UpstreamPool_pick(upstream_pools["u"], <<>>) :
          /\ o.result.some
          /\ upstream_pools' = [upstream_pools EXCEPT !["u"] = o.up]
          /\ last_pick' = [some |-> TRUE, upstream |-> "u", key |-> <<>>,
                           result |-> o.result]
    /\ calls' = [calls EXCEPT !.inflight = TRUE]
    /\ UNCHANGED now

(* forward_request returns and the listener marks the backend. *)
ProbeListenerReturn(ok) ==
    /\ calls.inflight
    /\ ~ ok => FailureInTime
    /\ upstream_pools' =
          [upstream_pools EXCEPT !["u"].pool =
              IF ok THEN mark_success(@, 0, now).pool ELSE mark_failure(@, 0, now).pool]
    /\ calls' = [calls EXCEPT !.inflight = FALSE]
    /\ last_pick' = None
    /\ UNCHANGED now

NextProbe ==
    \/ ProbeSleep /\ UNCHANGED OutsideLB
    \/ ProbeSend /\ UNCHANGED OutsideLB
    \/ ProbeMark /\ UNCHANGED OutsideLB
    \/ ProbesTurnGood /\ UNCHANGED OutsideLB
    \/ ProbeListenerPick /\ UNCHANGED OutsideLB
    \/ \E ok \in BOOLEAN : ProbeListenerReturn(ok) /\ UNCHANGED OutsideLB

SpecProbe == InitProbe /\ [][NextProbe]_vars

(* The task is spawned on the runtime of #[tokio::main]: its sleep and its *)
(* timed send end, and no guard of the pool mutex is held across I/O, so   *)
(* each step of its loop is taken once it can be.                          *)
SpecProbeFair ==
    /\ SpecProbe
    /\ WF_vars(ProbeSleep /\ UNCHANGED OutsideLB)
    /\ WF_vars(ProbeSend /\ UNCHANGED OutsideLB)
    /\ WF_vars(ProbeMark /\ UNCHANGED OutsideLB)

-----------------------------------------------------------------------------
(* SpecWrap: a round-robin balancer picking for as long as it takes the    *)
(* cursor to go round its machine word, on a pool whose backends fail and  *)
(* recover at once. `calls` keeps the last pick: the cursor before it, its *)
(* result, and the result of the pick before it if the pool has not        *)
(* changed in between.                                                     *)

WrapBackends == NumBackends + 1

NoWrapPick == [called |-> FALSE, before |-> 0, result |-> None, prev |-> None]

InitWrap ==
    /\ now = 0
    /\ upstream_pools =
          OnePool(WrapBackends,
                  [failure_threshold |-> 1, success_threshold |-> 1, cooldown_ms |-> 0],
                  RoundRobin_new)
    /\ calls = NoWrapPick
    /\ last_pick = None
    /\ PoolUnused
    /\ BridgeUnused
    /\ ReqUnused
    /\ ConnUnused

WrapMarkFailure(i) ==
    /\ MarkFailure("u", i)
    /\ calls' = IF upstream_pools' = upstream_pools THEN calls ELSE NoWrapPick

WrapMarkSuccess(i) ==
    /\ MarkSuccess("u", i)
    /\ calls' = IF upstream_pools' = upstream_pools THEN calls ELSE NoWrapPick

WrapPick ==
    /\ \E o \in RoundRobin_pick(upstream_pools["u"].load_balancer,
                                 upstream_pools["u"].pool) :
          /\ upstream_pools' = [upstream_pools EXCEPT !["u"].load_balancer = o.lb]
          /\ last_pick' = [some |-> TRUE, upstream |-> "u", key |-> <<>>,
                           result |-> o.result]
          /\ calls' = [called |-> TRUE,
                       before |-> upstream_pools["u"].load_balancer.next,
                       result |-> o.result,
                       prev |-> IF calls.called THEN calls.result ELSE None]
    /\ UNCHANGED now

NextWrap ==
    \/ \E i \in 0..(WrapBackends - 1) : WrapMarkFailure(i) /\ UNCHANGED OutsideLB
    \/ \E i \in 0..(WrapBackends - 1) : WrapMarkSuccess(i) /\ UNCHANGED OutsideLB
    \/ WrapPick /\ UNCHANGED OutsideLB

SpecWrap == InitWrap /\ [][NextWrap]_vars

-----------------------------------------------------------------------------
(* Properties of the health state machine and of the load balancers. *)

HealthySet(p) == Range(healthy_indices(p))

(* C1: once failure_threshold consecutive mark_failure calls were made on  *)
(* a backend it is not in healthy_indices(), and a backend that was marked *)
(* unhealthy stays out of healthy_indices() until cooldown_ms has elapsed  *)
(* since the marking and success_threshold mark_success calls were made    *)
(* since then.                                                             *)
C1_UnhealthyUntilCooldownAndSuccesses ==
    \A i \in DOMAIN upstream_pools["u"].pool :
        LET b == upstream_pools["u"].pool[i]
            hc == b.backend.health_check
            c == calls["u"][i]
        IN /\ c.run >= hc.failure_threshold => i \notin HealthySet(upstream_pools["u"].pool)
           /\ (/\ c.marked
               /\ ~ (/\ now - c.marked_at >= hc.cooldown_ms
                     /\ c.succ_since >= hc.success_threshold))
                 => i \notin HealthySet(upstream_pools["u"].pool)

(* A marked backend with a success reported during its cooldown, still out. *)
C1_Witness ==
    \E i \in DOMAIN upstream_pools["u"].pool :
        /\ calls["u"][i].marked
        /\ calls["u"][i].succ_since >= 1
        /\ now - calls["u"][i].marked_at
              < upstream_pools["u"].pool[i].backend.health_check.cooldown_ms
        /\ i \notin HealthySet(upstream_pools["u"].pool)

(* C2: a pick, of any strategy and key, returns None exactly when          *)
(* healthy_indices() is empty.                                             *)
C2_NoneIffNoHealthy ==
    last_pick.some =>
        (last_pick.result = None <=> healthy_indices(upstream_pools["u"].pool) = <<>>)

(* A consistent-hash pick on a pool with no healthy backend. *)
C2_Witness ==
    /\ last_pick.some
    /\ last_pick.result = None
    /\ upstream_pools["u"].load_balancer.kind = "ConsistentHash"

(* C3: the index a pick returns is in healthy_indices() of the pool it was *)
(* made on: an Unhealthy backend is never selected.                        *)
C3_PickIsHealthy ==
    (last_pick.some /\ last_pick.result.some) =>
        /\ last_pick.result.value \in HealthySet(upstream_pools["u"].pool)
        /\ is_healthy(upstream_pools["u"].pool[last_pick.result.value])

(* A pick that skipped the unhealthy backend 0. *)
C3_Witness ==
    /\ last_pick.some
    /\ last_pick.result.some
    /\ ~ is_healthy(upstream_pools["u"].pool[0])
    /\ last_pick.result.value # 0

-----------------------------------------------------------------------------
(* Properties of the HTTP/2 upstream pool. *)

(* C4: for every backend address, the sends that hold a permit (acquired   *)
(* and not yet returned) never number more than max(max_inflight, 1).      *)
C4_InflightBounded ==
    \A a \in DOMAIN permits :
        /\ Cardinality(Outstanding(a)) <= Max2(max_inflight, 1)
        /\ Cardinality(Holding(a)) <= Max2(max_inflight, 1)

(* A backend with two permits, both taken, and a sender waiting. *)
C4_Witness ==
    \E a \in DOMAIN permits :
        /\ max_inflight = 2
        /\ Cardinality(Outstanding(a)) = 2
        /\ waiters[a] # <<>>

(* C5: the permit of a send is released on every outcome: when no send on  *)
(* an address is pending (each has returned or was cancelled), all         *)
(* max(max_inflight, 1) permits of the address are available.              *)
C5_PermitsRestored ==
    \A a \in DOMAIN permits :
        (\A c \in DOMAIN senders : senders[c].pc = "idle" \/ senders[c].backend # a)
            => permits[a] = Max2(max_inflight, 1)

(* Sends ended in a response, in a transport error and in a cancellation,  *)
(* none pending, on a pool with a single permit per backend.               *)
C5_Witness ==
    /\ senders # <<>>
    /\ max_inflight <= 1
    /\ \A c \in DOMAIN senders : senders[c].pc = "idle"
    /\ \A o \in {"Ok", "SendError", "Cancelled"} :
          \E c \in DOMAIN senders : senders[c].outcome = o
    /\ \A a \in DOMAIN permits : permits[a] = 1

-----------------------------------------------------------------------------
(* Properties of the bridge and of the response headers. *)

HopHeaderNames ==
    {B_connection, B_keep_alive, B_proxy_connection, B_transfer_encoding, B_upgrade}

(* The number a string of decimal digits denotes. *)
RECURSIVE DecimalValue(_)
DecimalValue(digits) ==
    IF digits = <<>> THEN 0
    ELSE 10 * DecimalValue(SubSeq(digits, 1, Len(digits) - 1))
         + (digits[Len(digits)] - 48)

(* C8: the HTTP/2 request the bridge builds carries none of the hop-by-hop *)
(* headers connection, keep-alive, proxy-connection, transfer-encoding,    *)
(* upgrade, whatever the inbound header list.                              *)
C8_NoHopHeaderOnH2Request ==
    (bridge_in.kind = "request" /\ bridge_out.some /\ bridge_out.value.ok) =>
        \A i \in DOMAIN bridge_out.value.value.headers :
            bridge_out.value.value.headers[i].name \notin HopHeaderNames

(* C9: the header list written by send_backend_response carries no         *)
(* hop-by-hop header, starts with :status and holds exactly one            *)
(* content-length, whose value is the length of the body.                  *)
C9_ResponseHeaders ==
    (bridge_in.kind = "response" /\ bridge_out.some /\ bridge_out.value.headers.some) =>
        LET hs == bridge_out.value.headers.value
            lengths == {i \in DOMAIN hs : hs[i].name = B_content_length}
        IN /\ \A i \in DOMAIN hs : hs[i].name \notin HopHeaderNames
           /\ hs[1].name = B_status
           /\ DecimalValue(hs[1].value) = bridge_in.status
           /\ Cardinality(lengths) = 1
           /\ \A i \in lengths : DecimalValue(hs[i].value) = Len(bridge_in.body)

(* A response written for an upstream response that carried an upgrade and *)
(* a content-length header and a body.                                     *)
C9_Witness ==
    /\ bridge_in.kind = "response"
    /\ bridge_out.some
    /\ bridge_out.value.headers.some
    /\ bridge_out.value.body.some
    /\ bridge_in.body # <<>>
    /\ \E i, j \in DOMAIN bridge_in.headers :
          /\ bridge_in.headers[i].name = B_upgrade
          /\ bridge_in.headers[j].name = B_content_length

-----------------------------------------------------------------------------
(* Properties of the request dispatch. *)

(* The :status of each response just written on a stream. *)
StatusesWritten(stream_id) ==
    {DecimalValue(written[i].headers[1].value) :
        i \in {j \in DOMAIN written : written[j].stream_id = stream_id}}

(* C6: once the Finished event of an accepted request was handled, exactly *)
(* one of requests_success and requests_failure was incremented, by one,   *)
(* whatever the outcome of the dispatch.                                    *)
C6_ExactlyOneOutcomeCounter ==
    last_finish.some =>
        LET successes == metrics.requests_success - last_finish.before.requests_success
            failures == metrics.requests_failure - last_finish.before.requests_failure
        IN successes + failures = 1

(* C7: a finished request with a method and a path that matches no route   *)
(* is answered with status 500 on its stream.                               *)
C7_NoRouteAnswered500 ==
    (last_finish.some /\ last_finish.outcome = "no route") =>
        500 \in StatusesWritten(last_finish.stream_id)

-----------------------------------------------------------------------------
(* Properties of the connection table. *)

(* C10: once start_draining() was called no connection is accepted: the    *)
(* table never holds a key it did not hold when draining started, whatever *)
(* datagrams arrive.                                                       *)
C10_NoNewConnectionWhileDraining ==
    draining => DOMAIN connections \subseteq drain_keys

(* An Initial datagram of an unknown peer and DCID dropped while draining, *)
(* with a connection still in the table.                                   *)
C10_Witness ==
    /\ draining
    /\ DOMAIN connections # {}
    /\ last_call.some
    /\ last_call.op = "poll"
    /\ last_call.ty = "Initial"
    /\ last_call.how = "unknown connection"

(* C11: a drain_complete() call made while draining returns false and      *)
(* leaves the table as it is while the table is non-empty and fewer than   *)
(* DRAIN_TIMEOUT seconds have passed since start_draining; once they have  *)
(* passed it closes every connection with the reason "draining", clears    *)
(* the table and returns true. Whenever drain_complete() returns true the  *)
(* table is empty.                                                         *)
C11_DrainComplete ==
    (last_call.some /\ last_call.op = "drain_complete") =>
       /\ (draining /\ DOMAIN last_call.before # {}
              /\ now - drain_start.value < DRAIN_TIMEOUT)
             => (~ last_call.returned /\ connections = last_call.before)
       /\ (draining /\ now - drain_start.value >= DRAIN_TIMEOUT)
             => /\ last_call.returned
                /\ last_call.closed = DOMAIN last_call.before
                /\ connections = <<>>
       /\ last_call.returned => DOMAIN connections = {}

(* The connections of a table that a datagram with this header from this   *)
(* peer can be handed to.                                                  *)
RoutedTo(table, is_draining, peer, header) ==
    {[key |-> found.value.scid, how |-> found.value.how] :
        found \in {f \in lookup(table, is_draining, peer, header) :
                      f.some /\ f.value.how # "created"}}

(* C12: while draining, poll hands a datagram to the same existing         *)
(* connection as it would without draining and drops it only when no       *)
(* connection matches it; the connection is stored again under its key     *)
(* after the datagram was processed with the table otherwise as it was;    *)
(* start_draining and a drain_complete that returns false leave the table  *)
(* unchanged.                                                              *)
C12_DrainingKeepsConnections ==
    (draining /\ last_call.some) =>
       /\ (last_call.op = "poll" /\ Header_from_slice(last_call.datagram).ok) =>
             LET header == Header_from_slice(last_call.datagram).value
                 routed == RoutedTo(last_call.before, FALSE, last_call.peer, header)
             IN /\ RoutedTo(last_call.before, TRUE, last_call.peer, header) = routed
                /\ last_call.how = "unknown connection" => routed = {}
                /\ last_call.key.some =>
                      [key |-> last_call.key.value, how |-> last_call.how] \in routed
       /\ (last_call.op = "poll" /\ last_call.stored)
             => /\ last_call.key.value \in DOMAIN last_call.before
                /\ DOMAIN connections = DOMAIN last_call.before
                /\ \A k \in DOMAIN connections \ {last_call.key.value} :
                      connections[k] = last_call.before[k]
       /\ (\/ last_call.op = "start_draining"
           \/ last_call.op = "drain_complete" /\ ~ last_call.returned)
             => connections = last_call.before

C12_Witness ==
    /\ draining
    /\ now - drain_start.value < DRAIN_TIMEOUT
    /\ last_call.some /\ last_call.op = "poll"
    /\ last_call.how = "prefix" /\ last_call.stored
    /\ last_call.key.value \in DOMAIN connections

(* C13: after poll has handed a datagram to a connection, the connection   *)
(* is in the table under its SCID unless QUIC reports it closed, also when *)
(* quic.recv returned an error for the datagram, and every other           *)
(* connection is in the table as it was; the sweep of handle_timeouts and  *)
(* the forced close of drain_complete are the only other ways out of the   *)
(* table.                                                                  *)
C13_RemovedOnlyWhenClosed ==
    (last_call.some /\ last_call.op = "poll") =>
       /\ last_call.key.some =>
             /\ last_call.key.value \in DOMAIN last_call.before =>
                   \/ last_call.key.value \in DOMAIN connections
                   \/ last_call.recv_ok /\ ~ last_call.stored
             /\ \A k \in DOMAIN last_call.before \ {last_call.key.value} :
                   k \in DOMAIN connections /\ connections[k] = last_call.before[k]
       /\ ~ last_call.key.some => connections = last_call.before

(* The keys of a table that a header matches by prefix: short headers with *)
(* a DCID of more than 8 bytes only.                                       *)
PrefixMatches(table, header) ==
    IF header.ty = "Short" /\ Len(header.dcid) > 8
    THEN {k \in DOMAIN table : starts_with(header.dcid, k)}
    ELSE {}

(* C14: poll hands a datagram to the connection stored under its DCID;     *)
(* else, for a short header with a DCID of more than 8 bytes, to a         *)
(* connection whose SCID is a prefix of the DCID; and to a connection of   *)
(* the sender's peer address only when neither exists.                     *)
C14_RoutingOrder ==
    (last_call.some /\ last_call.op = "poll"
       /\ Header_from_slice(last_call.datagram).ok
       /\ last_call.ty # "VersionNegotiation") =>
       LET header == Header_from_slice(last_call.datagram).value
           exact == header.dcid \in DOMAIN last_call.before
           prefixed == PrefixMatches(last_call.before, header)
       IN /\ exact => /\ last_call.how = "exact"
                      /\ last_call.key = Some(header.dcid)
          /\ (~ exact /\ prefixed # {})
                => /\ last_call.how = "prefix"
                   /\ last_call.key.value \in prefixed
          /\ last_call.how = "peer"
                => /\ ~ exact /\ prefixed = {}
                   /\ last_call.before[last_call.key.value].peer_address
                         = last_call.peer

-----------------------------------------------------------------------------
(* Properties of the dispatch of a request to a backend. *)

(* The request just finished was handed to forward_request. *)
Dispatched ==
    last_finish.some /\ last_finish.outcome \in {"Ok", "Bridge", "Transport", "Timeout"}

(* The pool of the request just finished is the one it was before marked   *)
(* once on the index picked: with mark_success if success, mark_failure    *)
(* if not.                                                                 *)
MarkedOnce(success) ==
    LET index == last_finish.marks[1].index
        before == last_finish.pool_before
    IN /\ Len(last_finish.marks) = 1
       /\ last_finish.marks[1].op = IF success THEN "mark_success" ELSE "mark_failure"
       /\ upstream_pools[last_finish.upstream_name].pool
             = IF success THEN mark_success(before, index, now).pool
               ELSE mark_failure(before, index, now).pool

(* C16 as stated: a dispatched request marks the index picked once, with   *)
(* mark_success if and only if an upstream response of status < 500 was    *)
(* received, with mark_failure for a status >= 500, a timeout, a transport *)
(* error and a bridge error.                                               *)
C16_MarkSuccessIffBelow500 ==
    Dispatched =>
       MarkedOnce(last_finish.outcome = "Ok" /\ last_finish.upstream_status.value < 500)

(* C16, amended: a dispatched request marks the index picked once, with    *)
(* mark_failure for an upstream status of 500..599, a timeout, a transport *)
(* error and a bridge error, and with mark_success for every other         *)
(* upstream response, a status of 600 or more included.                    *)
C16_ExactlyOneMark ==
    Dispatched =>
       MarkedOnce(/\ last_finish.outcome = "Ok"
                  /\ ~ (last_finish.upstream_status.value >= 500
                          /\ last_finish.upstream_status.value <= 599))

(* An upstream response of status 200 that made an unhealthy backend       *)
(* healthy again.                                                          *)
C16_Witness ==
    /\ Dispatched
    /\ last_finish.upstream_status = Some(200)
    /\ ~ is_healthy(last_finish.pool_before[last_finish.marks[1].index])
    /\ is_healthy(upstream_pools[last_finish.upstream_name].pool[last_finish.marks[1].index])

(* C17: what is written on the stream of a dispatched request has the     *)
(* status of the outcome: 503 "upstream timeout" after a timeout, which    *)
(* increments backend_timeouts and requests_failure; 502 "upstream error"  *)
(* after any other transport error, which increments backend_errors and    *)
(* requests_failure; 400 after a bridge error; the upstream status,        *)
(* unchanged, after an upstream response.                                  *)
C17_StatusFollowsOutcome ==
    Dispatched =>
       LET o == last_finish.outcome
           by(counter) == metrics[counter] - last_finish.before[counter]
           status == CASE o = "Timeout" -> 503
                       [] o = "Transport" -> 502
                       [] o = "Bridge" -> 400
                       [] o = "Ok" -> last_finish.upstream_status.value
           text == CASE o = "Timeout" -> B_upstream_timeout
                     [] o = "Transport" -> B_upstream_error
                     [] OTHER -> <<>>
       IN /\ \A i \in DOMAIN written :
                /\ written[i].stream_id = last_finish.stream_id
                /\ written[i].headers[1].name = B_status
                /\ written[i].headers[1].value = ToStringBytes(status)
                /\ (o \in {"Timeout", "Transport"} /\ written[i].body.some)
                      => written[i].body.value = text
          /\ o = "Timeout"
                => /\ by("backend_timeouts") = 1 /\ by("requests_failure") = 1
                   /\ by("backend_errors") = 0 /\ by("requests_success") = 0
          /\ o = "Transport"
                => /\ by("backend_errors") = 1 /\ by("requests_failure") = 1
                   /\ by("backend_timeouts") = 0 /\ by("requests_success") = 0

(* The 503 of a timeout written in full, after a request that an upstream  *)
(* response answered.                                                      *)
C17_Witness ==
    /\ Dispatched
    /\ last_finish.outcome = "Timeout"
    /\ Len(written) = 1
    /\ written[1].body = Some(B_upstream_timeout)
    /\ DecimalValue(written[1].headers[1].value) = 503
    /\ metrics.backend_timeouts = 1
    /\ metrics.requests_success = 1

(* After `count` failed requests in a row: the single backend of "b" is   *)
(* unhealthy when the last of them returns, no request is with             *)
(* forward_request afterwards, and the request just finished, if it was    *)
(* routed to "b" after them, was answered 503 "no healthy servers".        *)
TrippedAfter(count) ==
    count >= upstream_pools["b"].pool[0].backend.health_check.failure_threshold =>
       /\ Dispatched => ~ is_healthy(upstream_pools["b"].pool[0])
       /\ dispatch = None
       /\ (last_finish.some /\ ~ Dispatched /\ last_finish.outcome # "invalid request")
             => /\ last_finish.outcome = "no healthy servers"
                /\ \A i \in DOMAIN written :
                      /\ written[i].headers[1].value = ToStringBytes(503)
                      /\ written[i].body.some => written[i].body.value = B_no_healthy

(* C18 as stated: with a single backend and failure_threshold = N, after N *)
(* requests in a row that ended in a timeout or a transport error the      *)
(* backend is unhealthy and the next request is answered 503 "no healthy   *)
(* servers" without a call to send.                                        *)
C18_TrippedAfterNFailedRequests ==
    TrippedAfter(calls.raw)

(* C18, amended: the same, when no health check of the backend succeeded   *)
(* from the dispatch of the first of the N requests on; the backend is     *)
(* then unhealthy until one succeeds.                                      *)
C18_TrippedUnlessProbeSucceeded ==
    /\ TrippedAfter(calls.streak)
    /\ calls.streak >= upstream_pools["b"].pool[0].backend.health_check.failure_threshold
          => ~ is_healthy(upstream_pools["b"].pool[0])

(* The third request, answered 503 "no healthy servers" in full after two  *)
(* failed requests to a backend of failure_threshold 2.                    *)
C18_Witness ==
    /\ upstream_pools["b"].pool[0].backend.health_check.failure_threshold = 2
    /\ calls.streak = 2
    /\ last_finish.some
    /\ last_finish.outcome = "no healthy servers"
    /\ Len(written) = 1
    /\ written[1].body = Some(B_no_healthy)
    /\ metrics.requests_total = 3

(* C19: backend_timeouts + backend_errors <= requests_failure, and a       *)
(* request increments at most one of backend_timeouts and backend_errors,  *)
(* and none without requests_failure.                                      *)
C19_BackendCountersWithinFailures ==
    /\ metrics.backend_timeouts + metrics.backend_errors <= metrics.requests_failure
    /\ last_finish.some =>
          LET timeouts == metrics.backend_timeouts - last_finish.before.backend_timeouts
              errors == metrics.backend_errors - last_finish.before.backend_errors
              failures == metrics.requests_failure - last_finish.before.requests_failure
          IN /\ timeouts \in {0, 1} /\ errors \in {0, 1}
             /\ timeouts + errors <= 1
             /\ timeouts + errors <= failures

(* One request timed out and one met a transport error. *)
C19_Witness ==
    /\ metrics.backend_timeouts = 1
    /\ metrics.backend_errors = 1
    /\ metrics.requests_failure = 2
    /\ last_finish.some

-----------------------------------------------------------------------------
(* Properties of the failure counter of a backend. *)

(* C20: a Healthy backend of failure_threshold >= 1 has fewer than         *)
(* failure_threshold consecutive failures, whatever sequence of            *)
(* mark_success and mark_failure calls was made on the pool.               *)
C20_HealthyBelowThreshold ==
    \A i \in DOMAIN upstream_pools["u"].pool :
       LET b == upstream_pools["u"].pool[i]
       IN (b.backend.health_check.failure_threshold >= 1 /\ is_healthy(b))
             => b.consecutive_failures < b.backend.health_check.failure_threshold

(* A backend that was marked unhealthy, is healthy again and has failed    *)
(* once since, one failure short of its threshold.                         *)
C20_Witness ==
    /\ is_healthy(upstream_pools["u"].pool[0])
    /\ upstream_pools["u"].pool[0].consecutive_failures = 1
    /\ upstream_pools["u"].pool[0].backend.health_check.failure_threshold = 2
    /\ calls["u"][0].marked

(* C21: when a call takes the backend from Unhealthy to Healthy, the last  *)
(* success_threshold calls on it were all mark_success made at             *)
(* now >= until, with no mark_failure among them.                          *)
C21_HealthyAfterConsecutiveSuccesses ==
    (calls.called /\ ~ calls.was_healthy /\ is_healthy(upstream_pools["u"].pool[0]))
       => calls.succ_run
             >= upstream_pools["u"].pool[0].backend.health_check.success_threshold

(* C22: mark_failure returns BecameUnhealthy only on a backend that was    *)
(* Healthy, mark_success returns BecameHealthy only on one that was        *)
(* Unhealthy, and the signals of a backend alternate, BecameUnhealthy      *)
(* first.                                                                  *)
C22_SignalsAlternate ==
    calls.called =>
       /\ calls.transition = Some("BecameUnhealthy")
             => (calls.op = "mark_failure" /\ calls.was_healthy)
       /\ calls.transition = Some("BecameHealthy")
             => (calls.op = "mark_success" /\ ~ calls.was_healthy)
       /\ calls.transition.some
             => /\ calls.transition # calls.prev_signal
                /\ calls.prev_signal = None => calls.transition = Some("BecameUnhealthy")

-----------------------------------------------------------------------------
(* Properties of a send to an address the pool does not hold. *)

(* The step in which sender c starts a send and comes back with            *)
(* UnknownBackend. *)
FailedUnknown(c) ==
    /\ senders[c].pc = "idle"
    /\ senders'[c] # senders[c]
    /\ senders'[c].outcome = "UnknownBackend"

(* C23: a send to an address that is not in the pool ends at once with UnknownBackend carrying that address; it takes no permit, joins no queue and dispatches nothing, every configured semaphore and every other send are as before; and no send ever waits or is in flight on an address outside the pool. *)
C23_UnknownBackendTakesNoPermit ==
    [][(\A c \in Senders :
          FailedUnknown(c) =>
             /\ senders'[c] = UnknownBackend(senders'[c].backend)
             /\ senders'[c].backend \notin DOMAIN permits
             /\ permits' = permits
             /\ waiters' = waiters
             /\ \A d \in Senders \ {c} : senders'[d] = senders[d])
       /\ (\A e \in Senders :
             senders'[e].pc # "idle" => senders'[e].backend \in DOMAIN permits')]_vars

(* A send to the unknown address has failed while another send holds a     *)
(* permit and a third waits for one.                                       *)
C23_Witness ==
    \E c, d, e \in Senders :
       /\ senders[c] = UnknownBackend(UnknownAddress)
       /\ senders[d].pc = "inflight"
       /\ senders[e].pc = "queued"

(* C24: when every dispatched request returns, a caller waiting for a permit leaves the queue with a permit and its request dispatched (or has given up itself), and every send that was started ends: no caller is starved or deadlocked. *)
C24_NoStarvation ==
    \A c \in Senders :
       /\ (senders[c].pc = "queued")
             ~> (senders[c].pc = "inflight" \/ senders[c].outcome = "Cancelled")
       /\ (senders[c].pc # "idle") ~> (senders[c].pc = "idle")

(* Contention on a backend of one permit: a caller that waited was handed  *)
(* the permit while another caller still waits behind it.                  *)
C24_Witness ==
    \E c, d \in Senders :
       /\ max_inflight = 1
       /\ senders[c].pc = "granted"
       /\ senders[d].pc = "queued"
       /\ senders[d].backend = senders[c].backend

-----------------------------------------------------------------------------
(* Properties of the consistent-hash balancer. *)

(* The virtual nodes of the reference ring of pool p: for every healthy    *)
(* backend, replicas x max(weight, 1) nodes keyed by                       *)
(* hash64(address || "-" || replica_index).                                *)
ReferenceRing(p, replicas) ==
    {[key |-> hash64(p[i].backend.address \o <<45>> \o ToStringBytes(r)), backend |-> i] :
        <<i, r>> \in {x \in (DOMAIN p) \X (0..(MaxReplicas * MaxWeight)) :
                        /\ is_healthy(p[x[1]])
                        /\ x[2] < replicas * Max2(p[x[1]].backend.weight, 1)}}

(* The nodes the lookup of hash h chooses from: those at or after h, or    *)
(* the whole ring when there is none.                                      *)
ReferenceFrom(nodes, h) ==
    IF \E n \in nodes : U64Leq(h, n.key)
    THEN {n \in nodes : U64Leq(h, n.key)}
    ELSE nodes

(* result is what the reference lookup of key gives on pool p. *)
IsReferenceLookup(result, key, p, replicas) ==
    LET from == ReferenceFrom(ReferenceRing(p, replicas), hash64(key)) IN
    IF from = {} THEN result = None
    ELSE /\ result.some
         /\ \E n \in from : /\ n.backend = result.value
                            /\ \A n2 \in from : U64Leq(n.key, n2.key)

(* C25: ConsistentHash.pick of a key on a pool is one value, a function of the key and of the pool state, and it is the reference lookup: the backend of the first virtual node of the healthy backends at or after hash64(key), or of the smallest node when there is none. *)
C25_PickIsRingLookup ==
    upstream_pools["u"].load_balancer.kind = "ConsistentHash" =>
       /\ \A key \in Keys :
             \E result \in {None} \cup {Some(i) : i \in DOMAIN upstream_pools["u"].pool} :
                /\ ConsistentHash_pick(upstream_pools["u"].load_balancer, key,
                                       upstream_pools["u"].pool)
                      = {[result |-> result, lb |-> upstream_pools["u"].load_balancer]}
                /\ IsReferenceLookup(result, key, upstream_pools["u"].pool,
                                     upstream_pools["u"].load_balancer.replicas)
       /\ last_pick.some =>
             IsReferenceLookup(last_pick.result, last_pick.key, upstream_pools["u"].pool,
                               upstream_pools["u"].load_balancer.replicas)

(* A consistent-hash pick on a pool of healthy backends has just wrapped   *)
(* to the smallest node: no virtual node is at or after the key's hash.    *)
C25_Witness ==
    /\ upstream_pools["u"].load_balancer.kind = "ConsistentHash"
    /\ last_pick.some
    /\ last_pick.result.some
    /\ \A i \in DOMAIN upstream_pools["u"].pool : is_healthy(upstream_pools["u"].pool[i])
    /\ \A n \in ReferenceRing(upstream_pools["u"].pool,
                               upstream_pools["u"].load_balancer.replicas) :
          U64Less(n.key, hash64(last_pick.key))

(* The pick of key on pool p with the balancer of upstream "u". *)
PickOn(p, key) ==
    {o.result : o \in ConsistentHash_pick(upstream_pools["u"].load_balancer, key, p)}

(* C26: when a mark_failure has taken one backend out of the healthy set, every key whose pick was another backend has the same pick as before; only the keys of the removed backend have a new one. *)
C26_StableUnderRemoval ==
    calls.some =>
       \A key \in RingKeys :
          \/ PickOn(calls.before, key) = {Some(calls.removed)}
          \/ PickOn(upstream_pools["u"].pool, key) = PickOn(calls.before, key)

(* A backend has just left a healthy set of three: one key moved from it   *)
(* to another backend, and the two backends that stay both had keys.       *)
C26_Witness ==
    /\ calls.some
    /\ Len(healthy_indices(calls.before)) = RingBackends
    /\ \E key \in RingKeys :
          /\ PickOn(calls.before, key) = {Some(calls.removed)}
          /\ PickOn(upstream_pools["u"].pool, key) # {Some(calls.removed)}
    /\ \E k1, k2 \in RingKeys :
          /\ PickOn(calls.before, k1) # PickOn(calls.before, k2)
          /\ Some(calls.removed) \notin PickOn(calls.before, k1) \cup PickOn(calls.before, k2)

-----------------------------------------------------------------------------
(* Properties of the listener loop. *)

(* C27: from the Finished event that dispatches a stream until the response of that stream is written, the listener thread takes no other datagram and no other HTTP/3 event and starts no other dispatch; the response is written on the stream that was dispatched; and at most one upstream request of the listener is outstanding. *)
C27_DispatchSerialized ==
    /\ calls.outstanding = (IF dispatch.some THEN 1 ELSE 0)
    /\ dispatch.some =>
          /\ calls.pc = "h3"
          /\ calls.during = 0
          /\ dispatch.value.stream_id = calls.stream_id
          /\ streams[calls.stream_id] = None
    /\ calls.returned =>
          /\ calls.during = 0
          /\ last_finish.some
          /\ last_finish.stream_id = calls.stream_id
          /\ \A i \in DOMAIN written : written[i].stream_id = calls.stream_id

(* The response of a dispatched stream has just been written while the     *)
(* other stream of the connection has its envelope and waits for its turn. *)
C27_Witness ==
    /\ calls.returned
    /\ written # <<>>
    /\ \E s \in StreamIds \ {calls.stream_id} : streams[s].some

(* C28: a stream has an envelope exactly from its Headers event until its Finished or Reset event; handle_request_finish is called for a stream once, at its Finished event, if a Headers event came before, and never otherwise; the envelope of a stream being dispatched is out of the table; and nothing is written on a stream that was reset. *)
C28_StreamLifecycle ==
    /\ \A s \in StreamIds :
          /\ streams[s].some <=> stream_state[s] = "open"
          /\ stream_state[s] = "open" => calls.seen[s].headers
          /\ calls.seen[s].dispatched =
                (IF stream_state[s] = "finished" /\ calls.seen[s].headers THEN 1 ELSE 0)
          /\ stream_state[s] = "reset" =>
                \A i \in DOMAIN written : written[i].stream_id # s
    /\ dispatch.some => calls.seen[dispatch.value.stream_id].dispatched = 1
    /\ last_finish.some => calls.seen[last_finish.stream_id].dispatched = 1

(* One stream was reset after its Headers event; the other finished, was   *)
(* dispatched and has just been answered.                                  *)
C28_Witness ==
    \E s, t \in StreamIds :
       /\ stream_state[s] = "reset"
       /\ calls.seen[s].headers
       /\ stream_state[t] = "finished"
       /\ calls.seen[t].dispatched = 1
       /\ calls.returned
       /\ written # <<>>

-----------------------------------------------------------------------------
(* Properties of the requests rejected before a backend is reached. *)

RejectedBeforeBackend ==
    /\ last_finish.some
    /\ last_finish.outcome \in {"invalid request", "no servers configured",
                                 "no healthy servers", "invalid server"}

(* C29: when handle_request_finish answers 400 or 503 before a backend is reached, no request is sent upstream and every backend of every upstream has the health state, the consecutive_failures and the successes it had; a request with an empty method or path is answered 400 whether or not a route serves it, and only such a request is. *)
C29_RejectionLeavesHealth ==
    /\ RejectedBeforeBackend =>
          /\ dispatch = None
          /\ calls.outstanding = 0
          /\ \A n \in DOMAIN upstream_pools :
                upstream_pools[n].pool = last_finish.pools_before[n].pool
    /\ last_finish.some =>
          (last_finish.outcome = "invalid request"
              <=> (last_finish.req.method = <<>> \/ last_finish.req.path = <<>>))

(* A request with no method and a path no upstream serves was answered 400. *)
InvalidRequestUnrouted ==
    /\ RejectedBeforeBackend
    /\ written # <<>>
    /\ last_finish.outcome = "invalid request"
    /\ find_upstream_for_request(ConfigUpstreams, last_finish.req.path,
                                 last_finish.req.authority) = {None}

(* A request was answered 503 because the backend of its upstream, which   *)
(* has failures counted, is unhealthy.                                     *)
C29_Witness ==
    /\ RejectedBeforeBackend
    /\ written # <<>>
    /\ last_finish.outcome = "no healthy servers"
    /\ \E n \in DOMAIN upstream_pools :
          \E i \in DOMAIN upstream_pools[n].pool :
             ~ is_healthy(upstream_pools[n].pool[i])

-----------------------------------------------------------------------------
(* Properties of the sweep of the connection table. *)

(* C30: after a sweep of the table no connection left in it is closed or has its idle timer run out, and a connection of the table that is closed or whose idle timer has run out is eventually removed (or takes a datagram again). *)
C30_ClosedEventuallyRemoved ==
    /\ [](last_call.some /\ last_call.op = "handle_timeouts" /\ last_call.cloned
            => \A k \in DOMAIN connections :
                  ~ connections[k].closed /\ ~ IdleExpired(connections[k], now))
    /\ \A k \in Scids :
          (k \in DOMAIN connections
              /\ (connections[k].closed \/ IdleExpired(connections[k], now)))
            ~> (k \notin DOMAIN connections \/ ~ IdleExpired(connections[k], now))

-----------------------------------------------------------------------------
(* Properties of the creation of connections. *)

(* A connection of the table matches the datagram: by its DCID, by a       *)
(* prefix of its DCID, or by the address of its sender.                    *)
Matched(table, peer, header) ==
    \/ header.dcid \in DOMAIN table
    \/ PrefixMatches(table, header) # {}
    \/ \E k \in DOMAIN table : table[k].peer_address = peer

(* C31: poll creates a connection only for a datagram whose header type is Initial, while the listener is not draining and no connection of the table matched the datagram; no call adds a key to the table otherwise; and a datagram of another type that matches no connection is dropped with the table as it was. *)
C31_CreatedOnlyForUnmatchedInitial ==
    last_call.some =>
       /\ DOMAIN connections \ DOMAIN last_call.before \subseteq
             (IF last_call.op = "poll" /\ last_call.how = "created"
              THEN {last_call.key.value} ELSE {})
       /\ (last_call.op = "poll" /\ last_call.how = "created") =>
             /\ last_call.ty = "Initial"
             /\ ~ draining
             /\ Header_from_slice(last_call.datagram).ok
             /\ ~ Matched(last_call.before, last_call.peer,
                          Header_from_slice(last_call.datagram).value)
             /\ last_call.key.value \notin DOMAIN last_call.before
       /\ (last_call.op = "poll"
             /\ Header_from_slice(last_call.datagram).ok
             /\ last_call.ty # "Initial"
             /\ ~ Matched(last_call.before, last_call.peer,
                          Header_from_slice(last_call.datagram).value)) =>
             /\ ~ last_call.key.some
             /\ connections = last_call.before

(* A connection was accepted for an Initial datagram and stored beside a   *)
(* connection of another peer that did not match.                          *)
C31_Witness ==
    /\ last_call.some
    /\ last_call.op = "poll"
    /\ last_call.how = "created"
    /\ last_call.stored
    /\ DOMAIN last_call.before # {}
    /\ last_call.key.value \in DOMAIN connections

(* A short-header datagram of an unknown peer and DCID was dropped while   *)
(* the listener is not draining and holds a connection.                    *)
UnmatchedShortDropped ==
    /\ last_call.some
    /\ last_call.op = "poll"
    /\ last_call.ty = "Short"
    /\ last_call.how = "unknown connection"
    /\ ~ draining
    /\ DOMAIN connections # {}

-----------------------------------------------------------------------------
(* Properties of route resolution. *)

(* Upstream n matches the request: its host is absent or that of the       *)
(* request, its path_prefix absent or a prefix of the path.                *)
RouteSatisfied(upstreams, n, path, host) ==
    /\ upstreams[n].route.host.some
          => (host.some /\ host.value = upstreams[n].route.host.value)
    /\ upstreams[n].route.path_prefix.some
          => starts_with(path, upstreams[n].route.path_prefix.value)

PrefixLen(upstreams, n) ==
    IF upstreams[n].route.path_prefix.some
    THEN Len(upstreams[n].route.path_prefix.value) ELSE 0

(* C32: route resolution returns an upstream that matches the request and than which no matching upstream has a strictly longer path prefix, and returns none exactly when no upstream matches, in whatever order the upstreams are iterated; the matches of the greatest length are the results the orders give. *)
C32_LongestPrefixMatch ==
    calls.called =>
       /\ calls.result.some =>
             /\ RouteSatisfied(calls.upstreams, calls.result.value, calls.path, calls.host)
             /\ \A n \in DOMAIN calls.upstreams :
                   RouteSatisfied(calls.upstreams, n, calls.path, calls.host)
                      => PrefixLen(calls.upstreams, n)
                            <= PrefixLen(calls.upstreams, calls.result.value)
       /\ ~ calls.result.some <=>
             ~ \E n \in DOMAIN calls.upstreams :
                   RouteSatisfied(calls.upstreams, n, calls.path, calls.host)
       /\ calls.result
             \in find_upstream_for_request(calls.upstreams, calls.path, calls.host)

(* The request matches three upstreams, by host alone and by two path      *)
(* prefixes; the one met last in the iteration has the longest prefix and  *)
(* is the result.                                                          *)
C32_Witness ==
    /\ calls.called
    /\ calls.result.some
    /\ calls.result.value = calls.order[3]
    /\ \A n \in DOMAIN calls.upstreams :
          RouteSatisfied(calls.upstreams, n, calls.path, calls.host)
    /\ PrefixLen(calls.upstreams, calls.order[1]) = 0
    /\ PrefixLen(calls.upstreams, calls.order[2]) > 0
    /\ PrefixLen(calls.upstreams, calls.order[3]) > PrefixLen(calls.upstreams, calls.order[2])

-----------------------------------------------------------------------------
(* Properties of the cooldown. *)

InCooldown ==
    /\ ~ is_healthy(upstream_pools["u"].pool[0])
    /\ now < upstream_pools["u"].pool[0].health_state.until

(* C33: mark_success on an Unhealthy backend while now < until returns None and leaves the backend as it was: health state, until, successes and consecutive_failures. *)
C33_CooldownSuccessIgnored ==
    [][ (InCooldown /\ (calls' # calls) /\ (calls'.op = "mark_success") /\ (now' = now))
           => ((upstream_pools' = upstream_pools) /\ (calls'.transition = None)) ]_vars

(* A mark_success has just been made on the backend in its cooldown, after *)
(* a failure below the threshold had been counted.                         *)
C33_Witness ==
    /\ calls.called
    /\ calls.op = "mark_success"
    /\ ~ calls.was_healthy
    /\ InCooldown
    /\ upstream_pools["u"].pool[0].consecutive_failures > 0

-----------------------------------------------------------------------------
(* Properties of the round-robin cursor at the end of its word. *)

(* The last pick moved the cursor by one, to 0 from the greatest value of  *)
(* the word, if it returned an index, and left it alone if it returned     *)
(* None.                                                                   *)
CursorAdvancesByOne ==
    calls.called =>
       upstream_pools["u"].load_balancer.next =
          IF calls.result.some
          THEN (IF calls.before = 2 ^ WordBits - 1 THEN 0 ELSE calls.before + 1)
          ELSE calls.before

(* The index after x in the cycle of the healthy indices. *)
NextInCycle(x) ==
    LET candidates == healthy_indices(upstream_pools["u"].pool)
        k == CHOOSE j \in 1..Len(candidates) : candidates[j] = x
    IN candidates[(k % Len(candidates)) + 1]

(* The last two picks, with no change of the pool in between, are          *)
(* neighbours in the cycle of the healthy indices.                         *)
ContinuesCycle ==
    (calls.called /\ calls.result.some /\ calls.prev.some)
       => calls.result.value = NextInCycle(calls.prev.value)

(* C34: a pick that returns an index advances the cursor by exactly one, wrapping to 0 at the end of the word, a pick that returns None leaves it; and on a stable pool each pick continues the cycle of the healthy indices from the pick before it, the pick after the cursor has wrapped included. *)
C34_RotationAcrossWrap == CursorAdvancesByOne /\ ContinuesCycle

(* Away from the wrap the two picks are neighbours in the cycle. *)
ContinuesCycleBeforeWrap == (calls.called /\ calls.before # 0) => ContinuesCycle

(* The pick made with the cursor back at 0, after the pick made at the     *)
(* greatest value of the word, on the same pool.                           *)
PickAfterWrap ==
    /\ calls.called
    /\ calls.before = 0
    /\ calls.result.some
    /\ calls.prev.some

-----------------------------------------------------------------------------
(* Properties of the pool mutex. *)

(* C35: every operation on the pool (len, pick, address lookup, mark_success, mark_failure), of the listener and of the health-check tasks alike, is made by the task that holds the pool mutex; the holder of the mutex is never at a send, a body collection, a poll or a sleep, so that a task waiting for the mutex never waits on the I/O of another. *)
C35_PoolMutexDiscipline ==
    /\ calls.access.some => calls.access.value.held
    /\ \A t \in LockTasks :
          calls.holder = Some(t) => calls.pc[t] \notin IoPositions \cup LockPositions
    /\ \A t \in LockTasks :
          (calls.pc[t] \in LockPositions /\ calls.holder.some)
             => calls.pc[calls.holder.value] \notin IoPositions

(* The listener waits for the mutex to record the outcome of its request   *)
(* while a health-check task holds it to record that of its probe.         *)
C35_Witness ==
    /\ calls.pc[0] = "lock_mark"
    /\ calls.holder = Some(1)
    /\ calls.pc[1] = "mark"
    /\ calls.access.some
    /\ calls.access.value.task = 0

(* A health-check task sends its probe while the listener holds the mutex. *)
ProbeDuringPick ==
    /\ calls.holder = Some(0)
    /\ calls.pc[0] = "pick"
    /\ calls.pc[1] = "send"

-----------------------------------------------------------------------------
(* Properties of the health-check task. *)

(* The last mark of the task was mark_success exactly when its probe had   *)
(* returned a 2xx response in time.                                        *)
MarkFollowsProbe ==
    calls.last.some =>
       /\ calls.last.value.op \in {"mark_success", "mark_failure"}
       /\ calls.last.value.op = "mark_success"
             <=> /\ calls.last.value.result.kind = "response"
                 /\ calls.last.value.result.status \in 200..299

-----------------------------------------------------------------------------
(* Properties of the keys of the connection table. *)

(* C37: every connection of the table is stored under one key, the SCID of SCID_LEN bytes drawn when it was accepted; a poll that found a connection by exact, prefix or peer-address match stores it again under the key it took it from and changes no other key, and no connection is under two keys. *)
C37_StoredUnderItsScid ==
    /\ \A k \in DOMAIN connections :
          /\ connections[k].scid = k
          /\ Len(k) = SCID_LEN
    /\ \A k1, k2 \in DOMAIN connections :
          connections[k1].scid = connections[k2].scid => k1 = k2
    /\ (last_call.some /\ last_call.op = "poll" /\ last_call.key.some
           /\ last_call.how \in {"exact", "prefix", "peer"})
          => /\ last_call.key.value \in DOMAIN last_call.before
             /\ last_call.stored =>
                   /\ DOMAIN connections = DOMAIN last_call.before
                   /\ connections[last_call.key.value].scid
                         = last_call.before[last_call.key.value].scid
             /\ ~ last_call.stored =>
                   DOMAIN connections = DOMAIN last_call.before \ {last_call.key.value}
             /\ \A k \in DOMAIN connections \ {last_call.key.value} :
                   connections[k] = last_call.before[k]

(* A connection found by the prefix of a longer DCID, from a new peer      *)
(* address, is back in the table of two connections under its key.         *)
C37_Witness ==
    /\ last_call.some
    /\ last_call.op = "poll"
    /\ last_call.how = "prefix"
    /\ last_call.stored
    /\ Cardinality(DOMAIN connections) = 2
    /\ last_call.key.value \in DOMAIN connections
    /\ connections[last_call.key.value].peer_address
          # last_call.before[last_call.key.value].peer_address

-----------------------------------------------------------------------------
(* Properties of the draining flag. *)

(* C38: once the listener drains, no step (a later start_draining, a poll, drain_complete, the passing of time) clears the draining flag or changes the recorded drain start; and in every state the listener drains exactly when a drain start is recorded. *)
C38_DrainingIrreversible ==
    /\ [](draining <=> drain_start.some)
    /\ [][draining => (draining' /\ (drain_start' = drain_start))]_vars

(* start_draining has just been called again, after the drain had started, *)
(* with a connection still in the table.                                   *)
C38_Witness ==
    /\ last_call.some
    /\ last_call.op = "start_draining"
    /\ draining
    /\ drain_start.some
    /\ drain_start.value < now
    /\ DOMAIN connections # {}

-----------------------------------------------------------------------------
(* Properties of the counters. *)

Counters ==
    {"requests_total", "requests_success", "requests_failure",
     "backend_timeouts", "backend_errors"}

(* C39: no step lowers a counter of the metrics, and in every state requests_success + requests_failure <= requests_total, whatever the events of the streams: requests replaced by later headers, reset, never finished, rejected or forwarded. *)
C39_CountersConsistent ==
    /\ [](metrics.requests_success + metrics.requests_failure <= metrics.requests_total)
    /\ [][\A c \in Counters : metrics'[c] >= metrics[c]]_vars

(* Three requests were counted: one succeeded, one failed, and one was     *)
(* reset or replaced and never finished.                                   *)
C39_Witness ==
    /\ metrics.requests_total = 3
    /\ metrics.requests_success = 1
    /\ metrics.requests_failure = 1
    /\ \A s \in StreamIds : stream_state[s] \in {"finished", "reset"}

-----------------------------------------------------------------------------
(* Properties of the envelope of a stream. *)

(* The envelope handle_request_finish was given for the stream that has    *)
(* just finished is the request the stream received.                       *)
EnvelopeAsReceived ==
    last_finish.some =>
       LET received == calls[last_finish.stream_id]
       IN /\ received.first.some
          /\ last_finish.req.method = RequestEnvelope(received.first.value).method
          /\ last_finish.req.path = RequestEnvelope(received.first.value).path
          /\ last_finish.req.body = received.body

(* C40: the envelope dispatched at Finished carries the method and the path of the request headers of its stream and a body that is the chunks received on the stream in order, and a request was counted once for each stream that received headers, trailers after the body included. *)
C40_EnvelopeSurvivesTrailers ==
    /\ EnvelopeAsReceived
    /\ \A s \in StreamIds : calls[s].counted <= 1

(* On the streams that received one Headers event the envelope is the      *)
(* request received.                                                       *)
EnvelopeWithoutTrailers ==
    (last_finish.some /\ calls[last_finish.stream_id].counted = 1) => EnvelopeAsReceived

(* A stream finished after headers, a body chunk and trailers. *)
FinishedAfterTrailers ==
    /\ last_finish.some
    /\ calls[last_finish.stream_id].counted = 2
    /\ calls[last_finish.stream_id].body # <<>>

=============================================================================
